---- MODULE Spec2Model ----
(***************************************************************************)
(* Consumption Prediction & Confirmation Engine of kitchen-management.     *)
(*                                                                         *)
(* The state is the content of the PostgreSQL tables the engine touches    *)
(* (kitchen_items, pending_confirmations, kitchen_consumption_patterns,    *)
(* consumption_events, consumption_usage_events, my_lists), the wall       *)
(* clock, and the position and local variables of every call of            *)
(* respond_to_confirmation and every scan.  Each database session of the   *)
(* source is a transaction of its own (db_connection.get_session returns   *)
(* a new session on every call), so every session.commit() of the source   *)
(* is one step of the model and steps of different handlers interleave.    *)
(***************************************************************************)
EXTENDS Integers, Sequences, FiniteSets, TLC

(***************************************************************************)
(* Bounds of the model.                                                    *)
(***************************************************************************)
MaxItems == 2       \* inventory rows ever created (item_id is a fresh uuid)
MaxTime == 2        \* the clock stops here (in ticks)
TicksPerDay == 2    \* clock resolution: ticks in one day
MaxFaults == 1      \* storage errors ever injected
MaxInventoryOps == 3 \* inventory requests ever served
MaxQuantity == 2    \* largest quantity of an inventory row

MaxSchedulers == 2  \* ConsumptionScheduler objects ever constructed
MaxSamples == 10    \* sample_count up to which the float learner is run
MaxRunning == 1     \* calls of _run_consumption_check in progress at once
Kitchens == {1}
\* The kitchens of the database.  Inventory requests are explored for
\* Kitchens; the read routes and check_now are asked about every kitchen.
KitchenIds == {1, 2}
\* The calls of respond_to_confirmation and the runs of
\* check_and_deplete_items (timer job or run_check_now), in the order in
\* which they start.
ReqOrder == <<"r1", "r2">>
ScanOrder == <<"s1", "s2">>
Reqs == {ReqOrder[i] : i \in DOMAIN ReqOrder}
Scans == {ScanOrder[i] : i \in DOMAIN ScanOrder}
\* The calls of update_consumption_pattern, in the order in which they start.
UpdOrder == <<"u1", "u2", "u3", "u4">>
Upds == {UpdOrder[i] : i \in DOMAIN UpdOrder}
ItemIds == 1..MaxItems

NULL == [null |-> TRUE]
NoQuantity == -1

(***************************************************************************)
(* Item names are sequences of characters, so that str.lower() and         *)
(* str.strip() are computed, not assumed.                                  *)
(***************************************************************************)
milk == <<"m", "i", "l", "k">>
Milk == <<"M", "i", "l", "k">>
eggs == <<"e", "g", "g", "s">>
chicken == <<"c", "h", "i", "c", "k", "e", "n">>

\* The items add_items_to_kitchen is called with.
InputItems == {[name |-> milk, quantity |-> 1, unit |-> "litre"],
               [name |-> Milk, quantity |-> 1, unit |-> "count"]}

\* The names update_kitchen_items is called with (a trailing blank).
InputRenames == {milk \o <<" ">>}

\* The ingredients mark_recipe_as_finished is called with.
InputIngredients == {[name |-> Milk, amount |-> 1, unit |-> "litre"]}

LowerChar(c) == CASE c = "M" -> "m" [] c = "E" -> "e" [] c = "C" -> "c" [] OTHER -> c

Lower(s) == [i \in 1..Len(s) |-> LowerChar(s[i])]

RECURSIVE LStrip(_)
LStrip(s) == IF s # <<>> /\ Head(s) = " " THEN LStrip(Tail(s)) ELSE s

RECURSIVE RStrip(_)
RStrip(s) == IF s # <<>> /\ s[Len(s)] = " " THEN RStrip(SubSeq(s, 1, Len(s) - 1)) ELSE s

Strip(s) == RStrip(LStrip(s))

NormalizeName(s) == Lower(Strip(s))

(***************************************************************************)
(* Floats are exact rationals [n, d] in lowest terms with d > 0.           *)
(***************************************************************************)
RECURSIVE GCD(_, _)
GCD(a, b) == IF b = 0 THEN a ELSE GCD(b, a % b)

Abs(x) == IF x < 0 THEN -x ELSE x

Rat(n, d) == LET g == GCD(Abs(n), Abs(d))
                 s == IF d < 0 THEN -1 ELSE 1
             IN  [n |-> (s * n) \div g, d |-> (s * d) \div g]

RInt(i) == [n |-> i, d |-> 1]
RAdd(a, b) == Rat(a.n * b.d + b.n * a.d, a.d * b.d)
RSub(a, b) == Rat(a.n * b.d - b.n * a.d, a.d * b.d)
RMul(a, b) == Rat(a.n * b.n, a.d * b.d)
RLeq(a, b) == a.n * b.d <= b.n * a.d
RLess(a, b) == a.n * b.d < b.n * a.d

RDiv(a, b) == Rat(a.n * b.d, a.d * b.n)

\* Python's round(): to the nearest integer, ties to the even one.
Round(a) == LET fl == a.n \div a.d
                r2 == 2 * (a.n - fl * a.d)
            IN  IF r2 < a.d THEN fl
                ELSE IF r2 > a.d THEN fl + 1
                ELSE IF fl % 2 = 0 THEN fl ELSE fl + 1

(***************************************************************************)
(* Python floats as they are (IEEE 754 binary64, round to nearest, ties to *)
(* even), for the positive values the learner computes: the rationals      *)
(* above leave the rounding of each operation out, which is right up to    *)
(* one unit in the last place per operation; where a claim depends on the  *)
(* last place, the learner is computed with these.  A natural number is the*)
(* sequence of its bits, lowest first, without leading zeros; a float is   *)
(* m * 2^e with a mantissa m of 53 bits.  Exponents stay far from the      *)
(* limits of the format, so there are no subnormals and no infinities.     *)
(***************************************************************************)
DBL_MANT_DIG == 53

BitAt(b, i) == IF i \in DOMAIN b THEN b[i] ELSE 0

RECURSIVE BTrim(_)
BTrim(b) == IF b # <<>> /\ b[Len(b)] = 0 THEN BTrim(SubSeq(b, 1, Len(b) - 1)) ELSE b

Zeros(n) == [i \in 1..n |-> 0]

RECURSIVE IntBits(_)
IntBits(i) == IF i = 0 THEN <<>> ELSE <<i % 2>> \o IntBits(i \div 2)

RECURSIVE BitsInt(_)
BitsInt(b) == IF b = <<>> THEN 0 ELSE Head(b) + 2 * BitsInt(Tail(b))

\* Sums and products are computed on digits of LIMB_BITS bits.
LIMB_BITS == 10
LIMB == 2^LIMB_BITS

Limbs(b) ==
    [j \in 1..((Len(b) + LIMB_BITS - 1) \div LIMB_BITS) |->
        BitsInt([t \in 1..LIMB_BITS |-> BitAt(b, LIMB_BITS * (j - 1) + t)])]

Bits(l) ==
    BTrim([i \in 1..(LIMB_BITS * Len(l)) |->
              (l[((i - 1) \div LIMB_BITS) + 1] \div 2^((i - 1) % LIMB_BITS)) % 2])

\* The digits of the sum of the columns col[j] * LIMB^(j-1), j from position on.
RECURSIVE Carried(_, _, _)
Carried(col, position, carry) ==
    IF position > Len(col)
    THEN IF carry = 0 THEN <<>> ELSE <<carry % LIMB>> \o Carried(col, position, carry \div LIMB)
    ELSE <<(col[position] + carry) % LIMB>>
            \o Carried(col, position + 1, (col[position] + carry) \div LIMB)

BAdd(a, b) ==
    LET x == Limbs(a)
        y == Limbs(b)
        n == IF Len(x) > Len(y) THEN Len(x) ELSE Len(y)
    IN  Bits(Carried([j \in 1..n |-> BitAt(x, j) + BitAt(y, j)], 1, 0))

\* The sum of the products x[i] * y[k + 1 - i].
RECURSIVE Column(_, _, _, _)
Column(x, y, k, i) ==
    IF i > Len(x) THEN 0
    ELSE x[i] * BitAt(y, k + 1 - i) + Column(x, y, k, i + 1)

BMul(a, b) ==
    LET x == Limbs(a)
        y == Limbs(b)
    IN  IF a = <<>> \/ b = <<>> THEN <<>>
        ELSE Bits(Carried([k \in 1..(Len(x) + Len(y) - 1) |-> Column(x, y, k, 1)], 1, 0))

BLess(a, b) ==
    \E i \in DOMAIN b :
        /\ BitAt(a, i) < b[i]
        /\ \A j \in (i + 1)..(IF Len(a) > Len(b) THEN Len(a) ELSE Len(b)) :
              BitAt(a, j) = BitAt(b, j)

\* a - b for a >= b: a + (LIMB^n - 1 - b) + 1 - LIMB^n.
BSub(a, b) ==
    LET x == Limbs(a)
        y == Limbs(b)
        s == Carried([j \in 1..Len(x) |-> x[j] + (LIMB - 1 - BitAt(y, j))], 1, 1)
    IN  Bits(SubSeq(s, 1, Len(x)))

\* a mod d followed by the digits of floor(a / d), for digits x of a and a
\* small positive integer d: long division from digit j down, rem being what
\* the higher digits left.
RECURSIVE DivMod(_, _, _, _)
DivMod(x, d, j, rem) ==
    IF j = 0 THEN <<rem>>
    ELSE IF rem * LIMB + x[j] >= 0
         THEN Append(DivMod(x, d, j - 1, (rem * LIMB + x[j]) % d),
                     (rem * LIMB + x[j]) \div d)
         ELSE <<>>

FZero == [m |-> <<>>, e |-> 0]

\* The float nearest to m * 2^e, ties to even.
FRound(m, e) ==
    LET b == BTrim(m)
        len == Len(b)
        s == len - DBL_MANT_DIG
        q == SubSeq(b, s + 1, len)
        up == /\ b[s] = 1
              /\ \/ \E i \in 1..(s - 1) : b[i] = 1
                 \/ q[1] = 1
        r == IF up THEN BAdd(q, <<1>>) ELSE q
    IN  IF len = 0 THEN FZero
        ELSE IF len <= DBL_MANT_DIG
        THEN [m |-> Zeros(DBL_MANT_DIG - len) \o b, e |-> e - (DBL_MANT_DIG - len)]
        ELSE IF Len(r) > DBL_MANT_DIG THEN [m |-> SubSeq(r, 2, Len(r)), e |-> e + s + 1]
        ELSE [m |-> r, e |-> e + s]

FMul(a, b) == FRound(BMul(a.m, b.m), a.e + b.e)

\* The mantissas of a and b at the lower of the two exponents.
FAligned(a, b) ==
    LET e == IF a.e < b.e THEN a.e ELSE b.e
    IN  [a |-> IF a.m = <<>> THEN <<>> ELSE Zeros(a.e - e) \o a.m,
         b |-> IF b.m = <<>> THEN <<>> ELSE Zeros(b.e - e) \o b.m,
         e |-> e]

FAdd(a, b) ==
    IF a.m = <<>> THEN b ELSE IF b.m = <<>> THEN a
    ELSE FRound(BAdd(FAligned(a, b).a, FAligned(a, b).b), FAligned(a, b).e)

\* a - b for a >= b.
FSub(a, b) ==
    IF b.m = <<>> THEN a
    ELSE FRound(BSub(FAligned(a, b).a, FAligned(a, b).b), FAligned(a, b).e)

FLess(a, b) ==
    IF b.m = <<>> THEN FALSE ELSE IF a.m = <<>> THEN TRUE
    ELSE BLess(FAligned(a, b).a, FAligned(a, b).b)

FLeq(a, b) == ~FLess(b, a)

\* The float nearest to n / d for integers n >= 0 and d > 0: the quotient of
\* n * 2^70 by d, with one more bit that tells whether the division left a
\* remainder.
FDivInt(n, d) ==
    LET scaled == Limbs(IF n = 0 THEN <<>> ELSE Zeros(7 * LIMB_BITS) \o IntBits(n))
        dm == DivMod(scaled, d, Len(scaled), 0)
    IN  FRound(<<IF Head(dm) # 0 THEN 1 ELSE 0>> \o Bits(Tail(dm)), 0 - (7 * LIMB_BITS + 1))

FInt(i) == FDivInt(i, 1)

\* The float of a decimal literal such as 0.3.
Float(r) == FDivInt(r.n, r.d)

\* int(round(x)) for a float x >= 0: to the nearest integer, ties to even.
FRoundInt(x) ==
    LET s == 0 - x.e
        q == SubSeq(x.m, s + 1, Len(x.m))
        up == /\ x.m[s] = 1
              /\ \/ \E i \in 1..(s - 1) : x.m[i] = 1
                 \/ (q # <<>> /\ q[1] = 1)
    IN  IF x.m = <<>> THEN 0
        ELSE IF s <= 0 THEN BitsInt(Zeros(x.e) \o x.m)
        ELSE IF s > Len(x.m) THEN 0
        ELSE BitsInt(q) + (IF up THEN 1 ELSE 0)

\* timedelta.days of (later - earlier): whole days, floored.
DaysBetween(earlier, later) == (later - earlier) \div TicksPerDay


(***************************************************************************)
(* Baseline Knowledge Store (utils/consumption_baselines.py).              *)
(***************************************************************************)
CONSUMPTION_BASELINES == (milk :> 1) @@ (eggs :> 14) @@ (chicken :> 3)

GetBaselineConsumption(item_name) ==
    LET item_name_lower == NormalizeName(item_name)
    IN  IF item_name_lower \in DOMAIN CONSUMPTION_BASELINES
        THEN [days |-> CONSUMPTION_BASELINES[item_name_lower]]
        ELSE NULL

GetDefaultConsumptionDays == 14

(***************************************************************************)
(* Pattern Learner (utils/consumption_predictor.py).                       *)
(***************************************************************************)
min_samples_for_personalization == 2

GetConfidenceLevel(sample_count) ==
    IF sample_count < 3 THEN "low"
    ELSE IF sample_count < 10 THEN "medium"
    ELSE "high"

GetAdaptiveLearningRate(sample_count, confidence) ==
    IF confidence = "low" THEN Rat(3, 10)
    ELSE IF confidence = "medium" THEN Rat(5, 10)
    ELSE Rat(7, 10)

\* The row of kitchen_consumption_patterns for (kitchen_id, item_name), or NULL.
PatternOf(patterns, kitchen_id, item_name_lower) ==
    IF <<kitchen_id, item_name_lower>> \in DOMAIN patterns
    THEN patterns[<<kitchen_id, item_name_lower>>]
    ELSE NULL

\* A variant of get_predicted_consumption_days that trusts a pattern from its
\* first sample on.
GetPredictedConsumptionDaysFirstSample(patterns, cache, kitchen_id, item_name) ==
    LET item_name_lower == NormalizeName(item_name)
        pattern == PatternOf(patterns, kitchen_id, item_name_lower)
    IN  IF pattern # NULL /\ pattern.sample_count >= 1
        THEN Round(pattern.personalized_days)
        ELSE IF DOMAIN cache # {}
        THEN IF item_name_lower \in DOMAIN cache
             THEN cache[item_name_lower]
             ELSE GetDefaultConsumptionDays
        ELSE IF GetBaselineConsumption(item_name_lower) # NULL
             THEN GetBaselineConsumption(item_name_lower).days
             ELSE GetDefaultConsumptionDays

\* A variant of get_predicted_consumption_days without the built-in table:
\* an empty cache leads to the default.
GetPredictedConsumptionDaysCacheOnly(patterns, cache, kitchen_id, item_name) ==
    LET item_name_lower == NormalizeName(item_name)
        pattern == PatternOf(patterns, kitchen_id, item_name_lower)
    IN  IF pattern # NULL /\ pattern.sample_count >= min_samples_for_personalization
        THEN Round(pattern.personalized_days)
        ELSE IF item_name_lower \in DOMAIN cache
        THEN cache[item_name_lower]
        ELSE GetDefaultConsumptionDays

\* get_predicted_consumption_days: cache is ConsumptionPredictor._baseline_cache.
GetPredictedConsumptionDays(patterns, cache, kitchen_id, item_name) ==
    LET item_name_lower == NormalizeName(item_name)
        pattern == PatternOf(patterns, kitchen_id, item_name_lower)
    IN  IF pattern # NULL /\ pattern.sample_count >= min_samples_for_personalization
        THEN Round(pattern.personalized_days)
        ELSE IF DOMAIN cache # {}
        THEN IF item_name_lower \in DOMAIN cache
             THEN cache[item_name_lower]
             ELSE GetDefaultConsumptionDays
        ELSE IF GetBaselineConsumption(item_name_lower) # NULL
             THEN GetBaselineConsumption(item_name_lower).days
             ELSE GetDefaultConsumptionDays

\* consumption_rate of update_consumption_pattern (lines 174-179): a rational or NULL.
ConsumptionRate(quantity, days_lasted) ==
    IF quantity # 0 /\ quantity > 0 /\ days_lasted # 0
    THEN Rat(quantity, days_lasted)
    ELSE NULL

\* Python truthiness of an optional float.
Truthy(x) == x # NULL /\ x.n # 0

\* A variant of get_predicted_consumption_days_for_quantity that does not
\* compare the units.
GetPredictedConsumptionDaysForQuantityAnyUnit(patterns, cache, kitchen_id, item_name, quantity, unit) ==
    LET item_name_lower == NormalizeName(item_name)
        pattern == PatternOf(patterns, kitchen_id, item_name_lower)
    IN  IF /\ pattern # NULL
           /\ pattern.sample_count >= min_samples_for_personalization
           /\ Truthy(pattern.consumption_rate)
        THEN Round(RDiv(RInt(quantity), pattern.consumption_rate))
        ELSE GetPredictedConsumptionDays(patterns, cache, kitchen_id, item_name)

\* get_predicted_consumption_days_for_quantity (lines 730-769).
GetPredictedConsumptionDaysForQuantity(patterns, cache, kitchen_id, item_name, quantity, unit) ==
    LET item_name_lower == NormalizeName(item_name)
        pattern == PatternOf(patterns, kitchen_id, item_name_lower)
    IN  IF /\ pattern # NULL
           /\ pattern.sample_count >= min_samples_for_personalization
           /\ Truthy(pattern.consumption_rate)
           /\ pattern.unit = unit
        THEN Round(RDiv(RInt(quantity), pattern.consumption_rate))
        ELSE GetPredictedConsumptionDays(patterns, cache, kitchen_id, item_name)

\* EMA of lines 193 and 206.
Ema(learning_rate, observed, old) ==
    RAdd(RMul(learning_rate, observed), RMul(RSub(RInt(1), learning_rate), old))

\* update_consumption_pattern, branch "if pattern" (lines 183-208): the row written.
UpdatedPattern(pattern, days_lasted, quantity, unit) ==
    LET sample_count == pattern.sample_count
        confidence == GetConfidenceLevel(sample_count + 1)
        learning_rate == GetAdaptiveLearningRate(sample_count + 1, confidence)
        new_avg == Ema(learning_rate, RInt(days_lasted), pattern.personalized_days)
        consumption_rate == ConsumptionRate(quantity, days_lasted)
        old_rate == IF Truthy(pattern.consumption_rate)
                    THEN pattern.consumption_rate ELSE consumption_rate
    IN  [personalized_days |-> new_avg,
         sample_count |-> sample_count + 1,
         confidence |-> confidence,
         learning_rate |-> learning_rate,
         consumption_rate |-> IF Truthy(consumption_rate)
                              THEN Ema(learning_rate, consumption_rate, old_rate)
                              ELSE pattern.consumption_rate,
         unit |-> IF Truthy(consumption_rate) THEN unit ELSE pattern.unit]

\* update_consumption_pattern, branch "else" (lines 220-238): the row inserted.
NewPattern(days_lasted, quantity, unit) ==
    [personalized_days |-> RInt(days_lasted),
     sample_count |-> 1,
     confidence |-> GetConfidenceLevel(1),
     learning_rate |-> GetAdaptiveLearningRate(1, GetConfidenceLevel(1)),
     consumption_rate |-> ConsumptionRate(quantity, days_lasted),
     unit |-> unit]

(***************************************************************************)
(* update_consumption_pattern as Python computes it, in floats.            *)
(***************************************************************************)
\* consumption_rate of lines 174-179: float(quantity) / days_lasted, or NULL.
FloatConsumptionRate(quantity, days_lasted) ==
    IF quantity # 0 /\ quantity > 0 /\ days_lasted # 0
    THEN FDivInt(quantity, days_lasted)
    ELSE NULL

\* Python truthiness of an optional float.
FTruthy(x) == x # NULL /\ x.m # <<>>

\* EMA of lines 193 and 206.
FloatEma(learning_rate, observed, old) ==
    FAdd(FMul(learning_rate, observed), FMul(FSub(FInt(1), learning_rate), old))

\* A variant of FloatUpdatedPattern that takes the learning rate of the
\* tier of the sample count before the update.
FloatUpdatedPatternOldTier(pattern, days_lasted, quantity, unit) ==
    LET sample_count == pattern.sample_count
        confidence == GetConfidenceLevel(sample_count)
        learning_rate == Float(GetAdaptiveLearningRate(sample_count, confidence))
        consumption_rate == FloatConsumptionRate(quantity, days_lasted)
        old_rate == IF FTruthy(pattern.consumption_rate)
                    THEN pattern.consumption_rate ELSE consumption_rate
    IN  [personalized_days |-> FloatEma(learning_rate, FInt(days_lasted),
                                        pattern.personalized_days),
         sample_count |-> sample_count + 1,
         confidence |-> confidence,
         learning_rate |-> learning_rate,
         consumption_rate |-> IF FTruthy(consumption_rate)
                              THEN FloatEma(learning_rate, consumption_rate, old_rate)
                              ELSE pattern.consumption_rate,
         unit |-> IF FTruthy(consumption_rate) THEN unit ELSE pattern.unit]

\* update_consumption_pattern, branch "if pattern" (lines 183-208): the row written.
FloatUpdatedPattern(pattern, days_lasted, quantity, unit) ==
    LET sample_count == pattern.sample_count
        confidence == GetConfidenceLevel(sample_count + 1)
        learning_rate == Float(GetAdaptiveLearningRate(sample_count + 1, confidence))
        consumption_rate == FloatConsumptionRate(quantity, days_lasted)
        old_rate == IF FTruthy(pattern.consumption_rate)
                    THEN pattern.consumption_rate ELSE consumption_rate
    IN  [personalized_days |-> FloatEma(learning_rate, FInt(days_lasted),
                                        pattern.personalized_days),
         sample_count |-> sample_count + 1,
         confidence |-> confidence,
         learning_rate |-> learning_rate,
         consumption_rate |-> IF FTruthy(consumption_rate)
                              THEN FloatEma(learning_rate, consumption_rate, old_rate)
                              ELSE pattern.consumption_rate,
         unit |-> IF FTruthy(consumption_rate) THEN unit ELSE pattern.unit]

\* update_consumption_pattern, branch "else" (lines 220-238): the row inserted.
FloatNewPattern(days_lasted, quantity, unit) ==
    [personalized_days |-> FInt(days_lasted),
     sample_count |-> 1,
     confidence |-> GetConfidenceLevel(1),
     learning_rate |-> Float(GetAdaptiveLearningRate(1, GetConfidenceLevel(1))),
     consumption_rate |-> FloatConsumptionRate(quantity, days_lasted),
     unit |-> unit]

\* A variant of DaysLasted without the minimum of one day.
DaysLastedUnclamped(added_at, depleted_at) ==
    DaysBetween(added_at, depleted_at)

\* days_lasted of log_consumption_event (lines 294-299).
DaysLasted(added_at, depleted_at) ==
    IF DaysBetween(added_at, depleted_at) < 1 THEN 1
    ELSE DaysBetween(added_at, depleted_at)

(***************************************************************************)
(* State.                                                                  *)
(***************************************************************************)
VARIABLES
    now,                        \* datetime.now(timezone.utc), in ticks
    kitchen_items,              \* item_id -> row of kitchen_items
    pending_confirmations,      \* rows of pending_confirmations; confirmation_id is the index
    kitchen_consumption_patterns, \* <<kitchen_id, item_name>> -> row (uq_kitchen_item_pattern)
    consumption_events,         \* rows of consumption_events, in insertion order
    consumption_usage_events,   \* rows of consumption_usage_events
    my_lists,                   \* rows of my_lists
    req,                        \* call of respond_to_confirmation -> position, locals, answer
    scan,                       \* run of check_and_deplete_items -> position, locals, summary
    undisturbed,                \* history: the scans since whose start no inventory
                                \* row was written and no resolve wrote anything
    n_faults,                   \* storage errors injected
    n_inventory,                \* inventory requests served
    upd,                        \* call of update_consumption_pattern -> position, arguments, locals
    float_pattern,              \* the row of one pattern with its floats as Python computes them
    float_update,               \* the last call that wrote float_pattern: arguments, row found
    consumption_baselines,      \* item_name -> avg_consumption_days: the table consumption_baselines
    baseline_cache,             \* ConsumptionPredictor._baseline_cache (class attribute)
    cache_loaded,               \* ConsumptionPredictor._cache_loaded (class attribute)
    boot,                       \* position of the start-up code of main.py
    pred,                       \* the last call of a prediction function: arguments and result
    listing,                    \* the last answer of get_pending_confirmations
    counting,                   \* the last answer of get_pending_confirmations_count
    schedulers,                 \* the ConsumptionScheduler objects constructed, in order
    consumption_scheduler,      \* main.py's global: index into schedulers, 0 for None
    scheduler_status,           \* the last answer of get_scheduler_status
    run,                        \* scan -> the call of _run_consumption_check that runs it
    check_now_status            \* the last HTTP status of manual_consumption_check

db == <<kitchen_items, pending_confirmations, kitchen_consumption_patterns,
        consumption_events, consumption_usage_events, my_lists>>

vars == <<now, kitchen_items, pending_confirmations, kitchen_consumption_patterns,
          consumption_events, consumption_usage_events, my_lists,
          req, scan, undisturbed, n_faults, n_inventory, upd,
          float_pattern, float_update,
          consumption_baselines, baseline_cache, cache_loaded, boot, pred,
          listing, counting,
          schedulers, consumption_scheduler, scheduler_status, run, check_now_status>>

\* The tables, calls and runs of the inventory requests, scans and resolves.
core == <<now, db, req, scan, undisturbed, n_faults, n_inventory>>

learner_vars == <<upd, float_pattern, float_update>>
predictor_vars == <<consumption_baselines, baseline_cache, cache_loaded, boot, pred>>
read_vars == <<listing, counting>>
scheduler_vars == <<schedulers, consumption_scheduler, scheduler_status, run, check_now_status>>

\* The state of the components that the inventory requests, the scans and the
\* resolves do not touch.
aux == <<learner_vars, predictor_vars, read_vars, scheduler_vars>>

\* What the learner, the predictor and the read routes leave alone.
not_learner == <<core, predictor_vars, read_vars, scheduler_vars>>
not_predictor == <<core, learner_vars, read_vars, scheduler_vars>>
not_reads == <<core, learner_vars, predictor_vars, scheduler_vars>>

NoTime == -1

\* A call that has not been made yet.  status and message are the HTTP
\* answer; learned is history: update_consumption_pattern committed a write
\* for this call.
NewReq == [pc |-> "new", confirmation_id |-> 0, response |-> "none",
           actual_quantity |-> NoQuantity, current_time |-> NoTime,
           days_lasted |-> 0, pattern |-> NULL,
           status |-> 0, message |-> "", learned |-> FALSE]

EmptySummary == [kitchens_checked |-> 0, items_checked |-> 0,
                 confirmations_created |-> 0, confirmations_skipped |-> 0,
                 errors |-> 0]

\* A run that has not started yet.  created, skipped and after are history:
\* the lookup keys the run created a confirmation for, those it skipped, and
\* the runs that had returned when it started.
NewScan == [pc |-> "new", current_time |-> NoTime, kitchens |-> {},
            kitchen_id |-> 0, pending_lookup |-> {}, items |-> {},
            groups |-> {}, summary |-> EmptySummary,
            created |-> {}, skipped |-> {}, after |-> {}]

\* A call of update_consumption_pattern that has not been made yet.  pattern
\* is the row the call loaded (NULL: none).
NewUpd == [pc |-> "new", kitchen_id |-> 0, item_name_lower |-> <<>>,
           days_lasted |-> 0, quantity |-> 0, unit |-> "", pattern |-> NULL]

\* No prediction function has been called yet.
NewPred == [fn |-> "none", kitchen_id |-> 0, item_name |-> <<>>,
            quantity |-> NoQuantity, unit |-> "", result |-> 0]

\* No answer of the two pending-confirmation routes yet.  at is the
\* datetime.now() of the query.
NewListing == [kitchen_id |-> 0, at |-> NoTime, confirmations |-> <<>>, count |-> 0]
NewCounting == [kitchen_id |-> 0, at |-> NoTime, pending_count |-> 0]

\* No call of the float learner yet.
NewFloatUpdate == [called |-> FALSE, pattern |-> NULL, days_lasted |-> 0,
                  quantity |-> NoQuantity, unit |-> ""]

\* No answer of get_scheduler_status yet.
NewStatus == [answered |-> FALSE, jobs_count |-> 0, jobs |-> {}]

\* No call of _run_consumption_check for this scan yet.  trigger is "timer"
\* or "check_now", scheduler the object called, specific_kitchen_id the
\* kitchen_id of the request (0: none), outcome what the call returned.
NewRun == [pc |-> "new", trigger |-> "none", scheduler |-> 0,
           specific_kitchen_id |-> 0, outcome |-> "none"]

\* The cache ConsumptionPredictor._load_baseline_cache builds from the
\* consumption_baselines table, which populate_baselines_to_db fills.
BaselineCache == CONSUMPTION_BASELINES

Init ==
    /\ now = 0
    /\ kitchen_items = <<>>
    /\ pending_confirmations = <<>>
    /\ kitchen_consumption_patterns = <<>>
    /\ consumption_events = <<>>
    /\ consumption_usage_events = <<>>
    /\ my_lists = <<>>
    /\ req = [r \in Reqs |-> NewReq]
    /\ scan = [s \in Scans |-> NewScan]
    /\ undisturbed = {}
    /\ n_faults = 0
    /\ n_inventory = 0
    /\ upd = [u \in Upds |-> NewUpd]
    /\ float_pattern = NULL
    /\ float_update = NewFloatUpdate
    /\ consumption_baselines = CONSUMPTION_BASELINES
    /\ baseline_cache = BaselineCache
    /\ cache_loaded = TRUE
    /\ boot = "serving"
    /\ pred = NewPred
    /\ listing = NewListing
    /\ counting = NewCounting
    /\ schedulers = <<>>
    /\ consumption_scheduler = 0
    /\ scheduler_status = NewStatus
    /\ run = [s \in Scans |-> NewRun]
    /\ check_now_status = 0

\* Calls and runs are interchangeable: they start in the order of their names.
Turn(order, thread, w) ==
    \E i \in DOMAIN order :
        /\ order[i] = w
        /\ thread[w].pc = "new"
        /\ \A j \in 1..(i - 1) : thread[order[j]].pc # "new"

(***************************************************************************)
(* Row locks of PostgreSQL: the DELETE of respond_to_confirmation (line    *)
(* 844) is executed at once and holds the row until its session commits    *)
(* or rolls back; another writer of the row waits.                         *)
(***************************************************************************)
HoldsItem(r) == req[r].pc \in {"patread", "learned"}

LockedItem(item_id) ==
    \E r \in Reqs : /\ HoldsItem(r)
                    /\ pending_confirmations[req[r].confirmation_id].item_id = item_id

\* What is left of a deleted row: item ids are uuids and never used again.
DeletedItem == [kitchen_id |-> 0, name |-> <<>>, quantity |-> 0, unit |-> "",
                added_at |-> NoTime, added_seq |-> 0, present |-> FALSE]

ItemsOfKitchen(kitchen_id) ==
    {i \in DOMAIN kitchen_items :
        kitchen_items[i].present /\ kitchen_items[i].kitchen_id = kitchen_id}

(***************************************************************************)
(* The clock.                                                              *)
(***************************************************************************)
Tick ==
    /\ now < MaxTime
    /\ now' = now + 1
    /\ UNCHANGED <<aux, db, req, scan, undisturbed, n_faults, n_inventory>>

(***************************************************************************)
(* Inventory Store (api_routes/kitchen_management_routes.py,               *)
(* utils/kitchen_item_helpers.py).  Rows have one storage group.           *)
(***************************************************************************)
\* Timestamps have microsecond resolution: added_at is the tick of the clock,
\* and added_seq orders the writes made within one tick (two rows never carry
\* the same datetime.now()).
Earlier(a, b) ==
    \/ a.added_at < b.added_at
    \/ a.added_at = b.added_at /\ a.added_seq < b.added_seq

\* _insert_item_into_kitchen, merge path: some row of the same name and unit.
MergeCandidates(kitchen_id, name, unit) ==
    {i \in ItemsOfKitchen(kitchen_id) :
        /\ Lower(kitchen_items[i].name) = NormalizeName(name)
        /\ kitchen_items[i].unit = unit}

\* add_items_to_kitchen with one item; auto_expiry tells whether
\* calculate_item_expiry returned a value.
AddItem(kitchen_id, name, quantity, unit, auto_expiry) ==
    /\ n_inventory < MaxInventoryOps
    /\ n_inventory' = n_inventory + 1
    /\ IF MergeCandidates(kitchen_id, name, unit) # {}
       THEN \E i \in MergeCandidates(kitchen_id, name, unit) :
               /\ ~LockedItem(i)
               /\ kitchen_items[i].quantity + quantity <= MaxQuantity
               /\ kitchen_items' =
                     [kitchen_items EXCEPT
                        ![i].quantity = @ + quantity,
                        ![i].added_at = IF auto_expiry THEN now ELSE @,
                        ![i].added_seq = IF auto_expiry THEN n_inventory' ELSE @]
       ELSE /\ Len(kitchen_items) < MaxItems
            /\ kitchen_items' =
                  Append(kitchen_items,
                         [kitchen_id |-> kitchen_id, name |-> Strip(name),
                          quantity |-> quantity, unit |-> unit, added_at |-> now,
                          added_seq |-> n_inventory', present |-> TRUE])
    /\ undisturbed' = {}
    /\ UNCHANGED <<aux, now, pending_confirmations, kitchen_consumption_patterns,
                   consumption_events, consumption_usage_events, my_lists,
                   req, scan, n_faults>>

\* A variant of ManualEvent that records the removal the way a confirmed
\* depletion is recorded.
ManualEventAsConfirmed(item_id, item, current_time) ==
    [kitchen_id |-> item.kitchen_id, item_id |-> item_id,
     item_name |-> Lower(item.name), quantity |-> item.quantity, unit |-> item.unit,
     days_lasted |-> IF DaysBetween(item.added_at, current_time) # 0
                     THEN DaysBetween(item.added_at, current_time) ELSE 1,
     method |-> "confirmed"]

\* The ConsumptionEvent remove_items_from_kitchen builds (lines 999-1010).
ManualEvent(item_id, item, current_time) ==
    [kitchen_id |-> item.kitchen_id, item_id |-> item_id,
     item_name |-> Lower(item.name), quantity |-> item.quantity, unit |-> item.unit,
     days_lasted |-> IF DaysBetween(item.added_at, current_time) # 0
                     THEN DaysBetween(item.added_at, current_time) ELSE 1,
     method |-> "manual"]

\* remove_items_from_kitchen with one item id.
RemoveItems(kitchen_id, item_id) ==
    /\ n_inventory < MaxInventoryOps
    /\ n_inventory' = n_inventory + 1
    /\ item_id \in ItemsOfKitchen(kitchen_id)
    /\ ~LockedItem(item_id)
    /\ consumption_events' =
          IF kitchen_items[item_id].quantity > 0 /\ kitchen_items[item_id].added_at # NoTime
          THEN Append(consumption_events, ManualEvent(item_id, kitchen_items[item_id], now))
          ELSE consumption_events
    /\ kitchen_items' = [kitchen_items EXCEPT ![item_id] = DeletedItem]
    /\ undisturbed' = {}
    /\ UNCHANGED <<aux, now, pending_confirmations, kitchen_consumption_patterns,
                   consumption_usage_events, my_lists, req, scan, n_faults>>

NoName == <<>>

\* update_kitchen_items with one item: quantity, name and expiry_date are the
\* keys of update_data (NoQuantity, NoName, FALSE when the key is absent).
UpdateItems(kitchen_id, item_id, quantity, name, expiry_date) ==
    /\ n_inventory < MaxInventoryOps
    /\ n_inventory' = n_inventory + 1
    /\ item_id \in ItemsOfKitchen(kitchen_id)
    /\ ~LockedItem(item_id)
    /\ quantity # NoQuantity \/ name # NoName \/ expiry_date
    /\ kitchen_items' =
          IF quantity # NoQuantity /\ ~(quantity > 0)
          THEN [kitchen_items EXCEPT ![item_id] = DeletedItem]
          ELSE [kitchen_items EXCEPT
                  ![item_id].quantity = IF quantity # NoQuantity THEN quantity ELSE @,
                  ![item_id].name = IF name # NoName THEN name ELSE @,
                  ![item_id].added_at = IF expiry_date THEN now ELSE @,
                  ![item_id].added_seq = IF expiry_date THEN n_inventory' ELSE @]
    /\ undisturbed' = {}
    /\ UNCHANGED <<aux, now, pending_confirmations, kitchen_consumption_patterns,
                   consumption_events, consumption_usage_events, my_lists,
                   req, scan, n_faults>>

\* convert_to_base_unit of mark_recipe_as_finished (lines 1167-1179).
ConvertToBaseUnit(amount, unit) ==
    CASE unit = "kg" -> [amount |-> amount * 1000, unit |-> "grams"]
      [] unit = "litre" -> [amount |-> amount * 1000, unit |-> "ml"]
      [] OTHER -> [amount |-> amount, unit |-> unit]

\* convert_from_base_unit (lines 1181-1187), for amounts that are whole in
\* the target unit.
ConvertFromBaseUnit(amount_base, base_unit, target_unit) ==
    IF \/ base_unit = "grams" /\ target_unit = "kg"
       \/ base_unit = "ml" /\ target_unit = "litre"
    THEN amount_base \div 1000
    ELSE amount_base

\* Lines 1207-1219: the rows a recipe ingredient can be matched with.
MatchingItems(kitchen_id, ingredient) ==
    {i \in ItemsOfKitchen(kitchen_id) :
        /\ Lower(kitchen_items[i].name) = NormalizeName(ingredient.name)
        /\ ConvertToBaseUnit(kitchen_items[i].quantity, kitchen_items[i].unit).unit
              = ConvertToBaseUnit(ingredient.amount, ingredient.unit).unit}

\* The ConsumptionEvent mark_recipe_as_finished builds (lines 1247-1258).
RecipeEvent(item_id, item, current_time) ==
    [kitchen_id |-> item.kitchen_id, item_id |-> item_id,
     item_name |-> Lower(item.name), quantity |-> item.quantity, unit |-> item.unit,
     days_lasted |-> IF item.added_at # NoTime
                     THEN DaysBetween(item.added_at, current_time) ELSE 1,
     method |-> "recipe"]

\* mark_recipe_as_finished with a recipe of one ingredient.
RecipeFinish(kitchen_id, ingredient) ==
    /\ n_inventory < MaxInventoryOps
    /\ n_inventory' = n_inventory + 1
    /\ MatchingItems(kitchen_id, ingredient) # {}
    /\ \E i \in MatchingItems(kitchen_id, ingredient) :
          LET item == kitchen_items[i]
              current == ConvertToBaseUnit(item.quantity, item.unit)
              recipe == ConvertToBaseUnit(ingredient.amount, ingredient.unit)
              new_amount_base == current.amount - recipe.amount
              remaining == ConvertFromBaseUnit(new_amount_base, current.unit, item.unit)
          IN  /\ ~LockedItem(i)
              /\ consumption_usage_events' =
                    Append(consumption_usage_events,
                           [item_id |-> i,
                            quantity_used |->
                                ConvertFromBaseUnit(recipe.amount, current.unit, item.unit),
                            quantity_remaining |-> IF remaining > 0 THEN remaining ELSE 0,
                            method |-> "recipe"])
              /\ IF new_amount_base <= 0
                 THEN /\ consumption_events' =
                            Append(consumption_events, RecipeEvent(i, item, now))
                      /\ kitchen_items' = [kitchen_items EXCEPT ![i] = DeletedItem]
                 ELSE /\ consumption_events' = consumption_events
                      /\ kitchen_items' =
                            [kitchen_items EXCEPT ![i].quantity = remaining]
    /\ undisturbed' = {}
    /\ UNCHANGED <<aux, now, pending_confirmations, kitchen_consumption_patterns,
                   my_lists, req, scan, n_faults>>

(***************************************************************************)
(* Depletion Scanner: ConsumptionPredictor.check_and_deplete_items.        *)
(***************************************************************************)
\* Lines 473-477: the kitchens that have at least one item.
KitchensWithItems == {k \in KitchenIds : ItemsOfKitchen(k) # {}}

\* A variant of PendingLookup that prefetches the processed rows instead of
\* the pending ones.
PendingLookupProcessed(confirmations, all_kitchen_ids) ==
    {<<confirmations[c].kitchen_id, confirmations[c].item_id>> :
        c \in {c \in DOMAIN confirmations :
                 /\ confirmations[c].kitchen_id \in all_kitchen_ids
                 /\ confirmations[c].status # "pending"}}

\* A variant of PendingLookup that leaves out the rows whose expires_at has
\* passed.
PendingLookupUnexpired(confirmations, all_kitchen_ids) ==
    {<<confirmations[c].kitchen_id, confirmations[c].item_id>> :
        c \in {c \in DOMAIN confirmations :
                 /\ confirmations[c].kitchen_id \in all_kitchen_ids
                 /\ confirmations[c].status = "pending"
                 /\ confirmations[c].expires_at > now}}

\* Lines 487-496: the prefetched set of (kitchen_id, item_id) with a pending row.
PendingLookup(confirmations, all_kitchen_ids) ==
    {<<confirmations[c].kitchen_id, confirmations[c].item_id>> :
        c \in {c \in DOMAIN confirmations :
                 /\ confirmations[c].kitchen_id \in all_kitchen_ids
                 /\ confirmations[c].status = "pending"}}

\* Lines 509-529: the rows of one kitchen that are grouped (name, added_at and
\* a positive quantity present).
ValidItems(kitchen_id) ==
    {[item_id |-> i, name |-> kitchen_items[i].name,
      quantity |-> kitchen_items[i].quantity, unit |-> kitchen_items[i].unit,
      added_at |-> kitchen_items[i].added_at,
      added_seq |-> kitchen_items[i].added_seq] :
        i \in {i \in ItemsOfKitchen(kitchen_id) :
                 /\ Lower(kitchen_items[i].name) # <<>>
                 /\ kitchen_items[i].added_at # NoTime
                 /\ kitchen_items[i].quantity > 0}}

\* Lines 539-543: item_group[0] after the sort by added_at.
OldestItems(item_group) ==
    {it \in item_group : \A other \in item_group : ~Earlier(other, it)}

PREDICTION_CAP == 90
CONFIRMATION_EXPIRY_DAYS == 7

\* A variant of NewConfirmation that stores the prediction as settled.
NewConfirmationSettled(kitchen_id, item_data, predicted_depletion_date) ==
    [kitchen_id |-> kitchen_id, item_id |-> item_data.item_id,
     item_name |-> item_data.name, quantity |-> item_data.quantity,
     unit |-> item_data.unit, added_at |-> item_data.added_at,
     predicted_depletion_date |-> predicted_depletion_date,
     status |-> "confirmed",
     expires_at |-> predicted_depletion_date + CONFIRMATION_EXPIRY_DAYS * TicksPerDay,
     confirmed_at |-> predicted_depletion_date,
     actual_quantity_remaining |-> NoQuantity]

\* create_pending_confirmation (lines 414-426): the row inserted.
NewConfirmation(kitchen_id, item_data, predicted_depletion_date) ==
    [kitchen_id |-> kitchen_id, item_id |-> item_data.item_id,
     item_name |-> item_data.name, quantity |-> item_data.quantity,
     unit |-> item_data.unit, added_at |-> item_data.added_at,
     predicted_depletion_date |-> predicted_depletion_date,
     status |-> "pending",
     expires_at |-> predicted_depletion_date + CONFIRMATION_EXPIRY_DAYS * TicksPerDay,
     confirmed_at |-> NoTime,
     actual_quantity_remaining |-> NoQuantity]

\* Lines 461-498: start of a scan, up to the prefetch; without kitchens the
\* empty summary is returned at once (lines 479-481).
ScanStart(s) ==
    /\ Turn(ScanOrder, scan, s)
    /\ scan' = [scan EXCEPT ![s] =
          IF KitchensWithItems = {}
          THEN [NewScan EXCEPT
                  !.pc = "done",
                  !.after = {t \in Scans : scan[t].pc = "done"}]
          ELSE [NewScan EXCEPT
                  !.pc = "kitchens",
                  !.current_time = now,
                  !.kitchens = KitchensWithItems,
                  !.pending_lookup =
                      PendingLookup(pending_confirmations, KitchensWithItems),
                  !.after = {t \in Scans : scan[t].pc = "done"}]]
    /\ undisturbed' = undisturbed \cup {s}
    /\ UNCHANGED <<aux, now, db, req, n_faults, n_inventory>>

\* Lines 501-533: the next kitchen of the loop, its items fetched and grouped.
ScanKitchen(s, kitchen_id) ==
    /\ scan[s].pc = "kitchens"
    /\ kitchen_id \in scan[s].kitchens
    /\ scan' = [scan EXCEPT
          ![s].kitchens = @ \ {kitchen_id},
          ![s].kitchen_id = kitchen_id,
          ![s].summary.kitchens_checked = @ + 1,
          ![s].items = ValidItems(kitchen_id),
          ![s].groups = {Lower(it.name) : it \in ValidItems(kitchen_id)},
          ![s].pc = IF ValidItems(kitchen_id) = {} THEN "kitchens" ELSE "groups"]
    /\ UNCHANGED <<aux, now, db, req, undisturbed, n_faults, n_inventory>>

\* Lines 536-597: one item group; oldest_item is item_group[0] after the sort.
ScanGroup(s, item_name, oldest_item) ==
    LET kitchen_id == scan[s].kitchen_id
        item_group == {it \in scan[s].items : Lower(it.name) = item_name}
        days_elapsed == DaysBetween(oldest_item.added_at, scan[s].current_time)
        prediction == GetPredictedConsumptionDays(kitchen_consumption_patterns,
                                                  baseline_cache, kitchen_id, item_name)
        predicted_days == IF prediction < PREDICTION_CAP THEN prediction
                          ELSE PREDICTION_CAP
        lookup_key == <<kitchen_id, oldest_item.item_id>>
        due == days_elapsed >= predicted_days
        skip == lookup_key \in scan[s].pending_lookup
        last == scan[s].groups = {item_name}
    IN  /\ scan[s].pc = "groups"
        /\ item_name \in scan[s].groups
        /\ oldest_item \in OldestItems(item_group)
        /\ pending_confirmations' =
              IF due /\ ~skip
              THEN Append(pending_confirmations,
                          NewConfirmation(kitchen_id, oldest_item,
                                          scan[s].current_time))
              ELSE pending_confirmations
        /\ scan' = [scan EXCEPT
              ![s].groups = @ \ {item_name},
              ![s].items = IF last THEN {} ELSE @,
              ![s].pc = IF last THEN "kitchens" ELSE "groups",
              ![s].summary.items_checked = @ + Cardinality(item_group),
              ![s].summary.confirmations_skipped = IF due /\ skip THEN @ + 1 ELSE @,
              ![s].summary.confirmations_created = IF due /\ ~skip THEN @ + 1 ELSE @,
              ![s].pending_lookup = IF due /\ ~skip THEN @ \cup {lookup_key} ELSE @,
              ![s].skipped = IF due /\ skip THEN @ \cup {lookup_key} ELSE @,
              ![s].created = IF due /\ ~skip THEN @ \cup {lookup_key} ELSE @]
        /\ UNCHANGED <<aux, now, kitchen_items, kitchen_consumption_patterns,
                       consumption_events, consumption_usage_events, my_lists,
                       req, undisturbed, n_faults, n_inventory>>

\* Lines 599-609: the loop is over, the summary is returned.
ScanReturn(s) ==
    /\ scan[s].pc = "kitchens"
    /\ scan[s].kitchens = {}
    /\ scan' = [scan EXCEPT ![s] =
          [NewScan EXCEPT !.pc = "done",
                          !.summary = scan[s].summary,
                          !.created = scan[s].created,
                          !.skipped = scan[s].skipped,
                          !.after = scan[s].after]]
    /\ UNCHANGED <<aux, now, db, req, undisturbed, n_faults, n_inventory>>

(***************************************************************************)
(* Confirmation Manager: respond_to_confirmation                           *)
(* (api_routes/consumption_prediction_routes.py) and the calls it makes    *)
(* into ConsumptionPredictor, each of which commits a session of its own.  *)
(***************************************************************************)
InFlight == {r \in Reqs : req[r].pc \notin {"new", "done"}}

\* The call is answered: its locals are gone, the answer stays.
Answered(r, confirmation_id, response, status, message) ==
    [NewReq EXCEPT !.pc = "done",
                   !.confirmation_id = confirmation_id,
                   !.response = response,
                   !.status = status,
                   !.message = message,
                   !.learned = req[r].learned]

Respond(r, status, message) ==
    [req EXCEPT ![r] = Answered(r, req[r].confirmation_id, req[r].response,
                                status, message)]

\* A variant of FindPending without the filter on status.
FindAnyStatus(confirmations, confirmation_id) ==
    IF confirmation_id \in DOMAIN confirmations
    THEN confirmations[confirmation_id]
    ELSE NULL

\* Lines 812-816: the row with this confirmation_id and status = 'pending'.
FindPending(confirmations, confirmation_id) ==
    IF /\ confirmation_id \in DOMAIN confirmations
       /\ confirmations[confirmation_id].status = "pending"
    THEN confirmations[confirmation_id]
    ELSE NULL

\* Lines 795-838: the request is read and the confirmation looked up; 404 if
\* there is no pending row of that id (lines 818-819).
RespondRead(r, confirmation_id, response, actual_quantity) ==
    /\ Turn(ReqOrder, req, r)
    /\ req' = [req EXCEPT ![r] =
          IF FindPending(pending_confirmations, confirmation_id) = NULL
          THEN Answered(r, confirmation_id, response, 404,
                        "not found or already processed")
          ELSE [NewReq EXCEPT !.pc = "read",
                              !.confirmation_id = confirmation_id,
                              !.response = response,
                              !.actual_quantity = actual_quantity,
                              !.current_time = now]]
    /\ UNCHANGED <<aux, now, db, scan, undisturbed, n_faults, n_inventory>>

\* A variant of RespondDenied that also removes the inventory row.
RespondDeniedRemoving(r) ==
    /\ req[r].pc = "read"
    /\ req[r].response = "denied"
    /\ pending_confirmations' =
          [pending_confirmations EXCEPT
             ![req[r].confirmation_id].status = "denied",
             ![req[r].confirmation_id].confirmed_at = req[r].current_time,
             ![req[r].confirmation_id].actual_quantity_remaining =
                 IF req[r].actual_quantity # NoQuantity THEN req[r].actual_quantity ELSE @]
    /\ kitchen_items' =
          [kitchen_items EXCEPT
             ![pending_confirmations[req[r].confirmation_id].item_id] = DeletedItem]
    /\ req' = [req EXCEPT ![r] =
          [NewReq EXCEPT !.pc = "done",
                         !.confirmation_id = req[r].confirmation_id,
                         !.response = req[r].response,
                         !.status = 200, !.message = "denied"]]
    /\ undisturbed' = {}
    /\ UNCHANGED <<aux, now, kitchen_consumption_patterns,
                   consumption_events, consumption_usage_events, my_lists,
                   scan, n_faults, n_inventory>>

\* Lines 895-912: the denied branch, committed.
RespondDenied(r) ==
    /\ req[r].pc = "read"
    /\ req[r].response = "denied"
    /\ pending_confirmations' =
          [pending_confirmations EXCEPT
             ![req[r].confirmation_id].status = "denied",
             ![req[r].confirmation_id].confirmed_at = req[r].current_time,
             ![req[r].confirmation_id].actual_quantity_remaining =
                 IF req[r].actual_quantity # NoQuantity THEN req[r].actual_quantity ELSE @]
    /\ req' = Respond(r, 200, "denied")
    /\ undisturbed' = {}
    /\ UNCHANGED <<aux, now, kitchen_items, kitchen_consumption_patterns,
                   consumption_events, consumption_usage_events, my_lists,
                   scan, n_faults, n_inventory>>

\* The ConsumptionEvent log_consumption_event builds (lines 308-320).
ConfirmedEvent(kitchen_id, item_data, depleted_at, days_lasted) ==
    [kitchen_id |-> kitchen_id, item_id |-> item_data.item_id,
     item_name |-> Lower(item_data.item_name), quantity |-> item_data.quantity,
     unit |-> item_data.unit, days_lasted |-> days_lasted,
     method |-> "confirmed"]

\* A variant of RespondDelete that goes on whatever the row count of the
\* DELETE is.
RespondDeleteAnyCount(r) ==
    LET confirmation == pending_confirmations[req[r].confirmation_id]
        days_lasted == DaysLasted(confirmation.added_at, req[r].current_time)
        logged == ~(confirmation.added_at = NoTime \/ confirmation.quantity <= 0)
    IN  /\ req[r].pc = "read"
        /\ req[r].response = "confirmed"
        /\ ~LockedItem(confirmation.item_id)
        /\ consumption_events' =
              IF logged
              THEN Append(consumption_events,
                          ConfirmedEvent(confirmation.kitchen_id, confirmation,
                                         req[r].current_time, days_lasted))
              ELSE consumption_events
        /\ req' = [req EXCEPT
              ![r].pc = IF logged THEN "patread" ELSE "learned",
              ![r].days_lasted = IF logged THEN days_lasted ELSE @,
              ![r].pattern =
                  IF logged
                  THEN PatternOf(kitchen_consumption_patterns,
                                 confirmation.kitchen_id,
                                 NormalizeName(confirmation.item_name))
                  ELSE NULL]
        /\ undisturbed' = {}
        /\ UNCHANGED <<aux, now, kitchen_items, pending_confirmations,
                       kitchen_consumption_patterns, consumption_usage_events,
                       my_lists, scan, n_faults, n_inventory>>

\* Lines 843-862 of the handler, up to the point where the call of
\* log_consumption_event has read the pattern:
\*  - the DELETE of the inventory row (843-849); it waits while another
\*    session holds the row; a row count of 0 rolls back and answers 404
\*    (891-893);
\*  - log_consumption_event, lines 267-322: validation, then the event is
\*    inserted and committed in the predictor's own session;
\*  - update_consumption_pattern, lines 162-171: the pattern is read in a
\*    third session.
\* Nothing another thread does can tell these three apart before the pattern
\* is written, so they are one step.
RespondDelete(r) ==
    LET confirmation == pending_confirmations[req[r].confirmation_id]
        days_lasted == DaysLasted(confirmation.added_at, req[r].current_time)
        logged == ~(confirmation.added_at = NoTime \/ confirmation.quantity <= 0)
    IN  /\ req[r].pc = "read"
        /\ req[r].response = "confirmed"
        /\ ~LockedItem(confirmation.item_id)
        /\ IF confirmation.item_id \in ItemsOfKitchen(confirmation.kitchen_id)
           THEN /\ consumption_events' =
                      IF logged
                      THEN Append(consumption_events,
                                  ConfirmedEvent(confirmation.kitchen_id, confirmation,
                                                 req[r].current_time, days_lasted))
                      ELSE consumption_events
                /\ req' = [req EXCEPT
                      ![r].pc = IF logged THEN "patread" ELSE "learned",
                      ![r].days_lasted = IF logged THEN days_lasted ELSE @,
                      ![r].pattern =
                          IF logged
                          THEN PatternOf(kitchen_consumption_patterns,
                                         confirmation.kitchen_id,
                                         NormalizeName(confirmation.item_name))
                          ELSE NULL]
                /\ undisturbed' = {}
           ELSE /\ req' = Respond(r, 404, "item not found in inventory")
                /\ consumption_events' = consumption_events
                /\ undisturbed' = undisturbed
        /\ UNCHANGED <<aux, now, kitchen_items, pending_confirmations,
                       kitchen_consumption_patterns, consumption_usage_events,
                       my_lists, scan, n_faults, n_inventory>>

\* The UPDATE the ORM flushes for a loaded row: only the columns whose new
\* value differs from the loaded one are written.
FlushUpdate(stored, loaded, changed) ==
    [f \in DOMAIN stored |-> IF changed[f] # loaded[f] THEN changed[f] ELSE stored[f]]

\* update_consumption_pattern, lines 183-239: the pattern is written and
\* committed.  An INSERT that meets a row of the same key violates
\* uq_kitchen_item_pattern: the exception reaches respond_to_confirmation,
\* which rolls back and answers 500.
RespondPatternWrite(r) ==
    LET confirmation == pending_confirmations[req[r].confirmation_id]
        key == <<confirmation.kitchen_id, NormalizeName(confirmation.item_name)>>
        loaded == req[r].pattern
    IN  /\ req[r].pc = "patread"
        /\ IF loaded # NULL
           THEN /\ kitchen_consumption_patterns' =
                      [kitchen_consumption_patterns EXCEPT ![key] =
                          FlushUpdate(@, loaded,
                                      UpdatedPattern(loaded, req[r].days_lasted,
                                                     confirmation.quantity,
                                                     confirmation.unit))]
                /\ req' = [req EXCEPT ![r].pc = "learned", ![r].pattern = NULL,
                                      ![r].days_lasted = 0, ![r].learned = TRUE]
                /\ undisturbed' = {}
           ELSE IF key \in DOMAIN kitchen_consumption_patterns
           THEN /\ kitchen_consumption_patterns' = kitchen_consumption_patterns
                /\ req' = Respond(r, 500, "duplicate key uq_kitchen_item_pattern")
                /\ undisturbed' = undisturbed
           ELSE /\ kitchen_consumption_patterns' =
                      (key :> NewPattern(req[r].days_lasted, confirmation.quantity,
                                         confirmation.unit))
                      @@ kitchen_consumption_patterns
                /\ req' = [req EXCEPT ![r].pc = "learned", ![r].days_lasted = 0,
                                      ![r].learned = TRUE]
                /\ undisturbed' = {}
        /\ UNCHANGED <<aux, now, kitchen_items, pending_confirmations, consumption_events,
                       consumption_usage_events, my_lists, scan,
                       n_faults, n_inventory>>

\* The MyList row of lines 865-876.
ShoppingItem(confirmation) ==
    [name |-> confirmation.item_name, quantity |-> confirmation.quantity,
     unit |-> confirmation.unit, kitchen_id |-> confirmation.kitchen_id,
     bucket_type |-> "mylist", auto_added |-> TRUE]

\* Lines 864-890: shopping-list row, status update and the commit of the
\* handler's session, which makes the DELETE of the inventory row durable.
RespondCommit(r) ==
    LET confirmation == pending_confirmations[req[r].confirmation_id]
    IN  /\ req[r].pc = "learned"
        /\ kitchen_items' = [kitchen_items EXCEPT ![confirmation.item_id] = DeletedItem]
        /\ my_lists' = Append(my_lists, ShoppingItem(confirmation))
        /\ pending_confirmations' =
              [pending_confirmations EXCEPT
                 ![req[r].confirmation_id].status = "confirmed",
                 ![req[r].confirmation_id].confirmed_at = req[r].current_time]
        /\ req' = Respond(r, 200, "confirmed")
        /\ undisturbed' = {}
        /\ UNCHANGED <<aux, now, kitchen_consumption_patterns, consumption_events,
                       consumption_usage_events, scan, n_faults, n_inventory>>

\* Lines 914-916: a database call of the handler raises (a transient storage
\* error); the handler's session is rolled back and the answer is 500.
RespondError(r) ==
    /\ r \in InFlight
    /\ n_faults < MaxFaults
    /\ n_faults' = n_faults + 1
    /\ req' = Respond(r, 500, "storage error")
    /\ UNCHANGED <<aux, now, db, scan, undisturbed, n_inventory>>

(***************************************************************************)
(* The learner on its own (utils/consumption_predictor.py, lines 150-245). *)
(* update_consumption_pattern is entered from log_consumption_event, once  *)
(* for every confirmed depletion; every call has a session of its own, and *)
(* the calls of concurrent requests interleave between the SELECT of lines *)
(* 166-169 and the commit of line 208 or 235.                              *)
(***************************************************************************)
\* The arguments log_consumption_event passes (lines 332-338): a name as
\* stored in the inventory, days_lasted >= 1, a positive quantity.
UpdateInputs ==
    [item_name : {milk, Milk}, days_lasted : {1, 2}, quantity : {1},
     unit : {"litre", "count"}]

\* Lines 162-171: the arguments are normalised and the pattern is read.
UpdateRead(u, kitchen_id, item_name, days_lasted, quantity, unit) ==
    /\ Turn(UpdOrder, upd, u)
    /\ upd' = [upd EXCEPT ![u] =
                  [pc |-> "read", kitchen_id |-> kitchen_id,
                   item_name_lower |-> NormalizeName(item_name),
                   days_lasted |-> days_lasted, quantity |-> quantity,
                   unit |-> unit,
                   pattern |-> PatternOf(kitchen_consumption_patterns, kitchen_id,
                                         NormalizeName(item_name))]]
    /\ UNCHANGED <<float_pattern, float_update, not_learner>>

\* Lines 183-245: the row is updated or inserted and the session commits; an
\* INSERT that meets a row of the same key violates uq_kitchen_item_pattern,
\* and the call rolls back and raises.
UpdateWrite(u) ==
    LET key == <<upd[u].kitchen_id, upd[u].item_name_lower>>
        loaded == upd[u].pattern
    IN  /\ upd[u].pc = "read"
        /\ IF loaded # NULL
           THEN /\ kitchen_consumption_patterns' =
                      [kitchen_consumption_patterns EXCEPT ![key] =
                          FlushUpdate(@, loaded,
                                      UpdatedPattern(loaded, upd[u].days_lasted,
                                                     upd[u].quantity, upd[u].unit))]
                /\ upd' = [upd EXCEPT ![u].pc = "done"]
           ELSE IF key \in DOMAIN kitchen_consumption_patterns
           THEN /\ kitchen_consumption_patterns' = kitchen_consumption_patterns
                /\ upd' = [upd EXCEPT ![u].pc = "raised"]
           ELSE /\ kitchen_consumption_patterns' =
                      (key :> NewPattern(upd[u].days_lasted, upd[u].quantity,
                                         upd[u].unit))
                      @@ kitchen_consumption_patterns
                /\ upd' = [upd EXCEPT ![u].pc = "done"]
        /\ UNCHANGED <<now, kitchen_items, pending_confirmations, consumption_events,
                       consumption_usage_events, my_lists, req, scan, undisturbed,
                       n_faults, n_inventory, float_pattern, float_update,
                       predictor_vars, read_vars, scheduler_vars>>

(***************************************************************************)
(* The learner of one pattern, one call after the other, in floats.        *)
(***************************************************************************)
\* The observations log_consumption_event passes (lines 294-299 and
\* 332-338): days_lasted of an item used up three days after it was added
\* and of one used up on the day it was added, and a positive quantity.
FloatInputs ==
    {[days_lasted |-> DaysLasted(0, 3 * TicksPerDay), quantity |-> 1, unit |-> "litre"],
     [days_lasted |-> DaysLasted(0, 0), quantity |-> 2, unit |-> "count"]}

\* update_consumption_pattern (lines 150-253) for one kitchen and item name,
\* with no other call under way.
FloatUpdate(days_lasted, quantity, unit) ==
    /\ float_pattern # NULL => float_pattern.sample_count < MaxSamples
    /\ float_pattern' =
          IF float_pattern # NULL
          THEN FloatUpdatedPattern(float_pattern, days_lasted, quantity, unit)
          ELSE FloatNewPattern(days_lasted, quantity, unit)
    /\ float_update' = [called |-> TRUE, pattern |-> float_pattern,
                        days_lasted |-> days_lasted, quantity |-> quantity,
                        unit |-> unit]
    /\ UNCHANGED <<upd, not_learner>>

(***************************************************************************)
(* The baseline store and the prediction functions.                        *)
(* main.py fills consumption_baselines when it is empty (lines 31-49 and   *)
(* 2024-2038; an exception is printed and the start-up goes on); importing *)
(* api_routes/consumption_prediction_routes.py constructs the first        *)
(* ConsumptionPredictor (line 31), which loads the class-level cache.      *)
(***************************************************************************)
\* populate_baselines_to_db behind the "count == 0" test of main.py; ok tells
\* whether the database calls succeeded.
PopulateIfEmpty(ok) ==
    IF ok /\ DOMAIN consumption_baselines = {}
    THEN CONSUMPTION_BASELINES
    ELSE consumption_baselines

\* main.py, lines 31-49.
BootInit(ok) ==
    /\ boot = "init"
    /\ boot' = "import"
    /\ consumption_baselines' = PopulateIfEmpty(ok)
    /\ UNCHANGED <<not_predictor, baseline_cache, cache_loaded, pred>>

\* ConsumptionPredictor.__init__ and _load_baseline_cache (lines 28-69): the
\* cache is filled from the table unless it was loaded before; an exception
\* of the query leaves cache and flag as they are.
NewPredictor(ok) ==
    /\ baseline_cache' =
          IF ~cache_loaded /\ ok
          THEN consumption_baselines @@ baseline_cache
          ELSE baseline_cache
    /\ cache_loaded' = (cache_loaded \/ ok)

\* main.py, line 74: the import of the routes module constructs its predictor.
BootImport(ok) ==
    /\ boot = "import"
    /\ boot' = "scheduler"
    /\ NewPredictor(ok)
    /\ UNCHANGED <<not_predictor, consumption_baselines, pred>>

\* ConsumptionScheduler.__init__ (utils/scheduler.py, lines 20-28): the
\* object has a predictor and a started BackgroundScheduler without jobs.
NewScheduler == [jobs |-> {}]

\* start_daily_checks (lines 31-54): the job is removed if present and added
\* with a cron trigger; first_run is the next time the trigger matches.
DailyJob(first_run) ==
    [id |-> "daily_consumption_check", next_run_time |-> first_run]

StartDailyChecks(scheduler, first_run) ==
    [jobs |-> {j \in scheduler.jobs : j.id # "daily_consumption_check"}
              \cup {DailyJob(first_run)}]

\* main.py, lines 1994-2018: with ENABLE_SCHEDULER a ConsumptionScheduler is
\* constructed, and with it (utils/scheduler.py, line 25) another predictor,
\* and the daily job is registered.
BootScheduler(enabled, ok, first_run) ==
    /\ boot = "scheduler"
    /\ boot' = "populate"
    /\ IF enabled
       THEN /\ NewPredictor(ok)
            /\ schedulers' = Append(schedulers, StartDailyChecks(NewScheduler, first_run))
            /\ consumption_scheduler' = Len(schedulers) + 1
       ELSE UNCHANGED <<baseline_cache, cache_loaded, schedulers, consumption_scheduler>>
    /\ UNCHANGED <<core, learner_vars, read_vars, consumption_baselines, pred,
                   scheduler_status, run, check_now_status>>

\* main.py, lines 2024-2038.
BootPopulate(ok) ==
    /\ boot = "populate"
    /\ boot' = "serving"
    /\ consumption_baselines' = PopulateIfEmpty(ok)
    /\ UNCHANGED <<not_predictor, baseline_cache, cache_loaded, pred>>

PredictNames == {milk, <<" ">> \o Milk, eggs, <<"t", "o", "f", "u">>}
PredictQuantities == {1, 3}
PredictUnits == {"litre", "count"}

\* get_predicted_consumption_days, called by get_prediction (line 87).
Predict(kitchen_id, item_name) ==
    /\ boot = "serving"
    /\ pred' = [fn |-> "days", kitchen_id |-> kitchen_id, item_name |-> item_name,
                quantity |-> NoQuantity, unit |-> "",
                result |-> GetPredictedConsumptionDays(
                              kitchen_consumption_patterns, baseline_cache,
                              kitchen_id, item_name)]
    /\ UNCHANGED <<not_predictor, consumption_baselines, baseline_cache,
                   cache_loaded, boot>>

\* get_predicted_consumption_days_for_quantity, called by get_prediction
\* (line 107).
PredictForQuantity(kitchen_id, item_name, quantity, unit) ==
    /\ boot = "serving"
    /\ pred' = [fn |-> "for_quantity", kitchen_id |-> kitchen_id,
                item_name |-> item_name, quantity |-> quantity, unit |-> unit,
                result |-> GetPredictedConsumptionDaysForQuantity(
                              kitchen_consumption_patterns, baseline_cache,
                              kitchen_id, item_name, quantity, unit)]
    /\ UNCHANGED <<not_predictor, consumption_baselines, baseline_cache,
                   cache_loaded, boot>>

\* The rows update_consumption_pattern leaves after one, two and three
\* confirmed depletions of one unit that lasted 1 or 4 days.
LearnedDays == {1, 4}
PatternRows1 == {NewPattern(d, 1, u) : d \in LearnedDays, u \in PredictUnits}
PatternRows2 ==
    UNION {{UpdatedPattern(p, d, 1, u) : d \in LearnedDays, u \in PredictUnits} :
           p \in PatternRows1}
PatternRows3 ==
    UNION {{UpdatedPattern(p, d, 1, u) : d \in LearnedDays, u \in PredictUnits} :
           p \in PatternRows2}
PatternTables ==
    {<<>>} \cup {(<<k, milk>> :> p) : k \in Kitchens,
                 p \in PatternRows1 \cup PatternRows2 \cup PatternRows3}

\* The process starts on a database whose patterns were learned earlier and
\* whose table of baselines is still empty.
InitPredict ==
    /\ now = 0
    /\ kitchen_items = <<>>
    /\ pending_confirmations = <<>>
    /\ kitchen_consumption_patterns \in PatternTables
    /\ consumption_events = <<>>
    /\ consumption_usage_events = <<>>
    /\ my_lists = <<>>
    /\ req = [r \in Reqs |-> NewReq]
    /\ scan = [s \in Scans |-> NewScan]
    /\ undisturbed = {}
    /\ n_faults = 0
    /\ n_inventory = 0
    /\ upd = [u \in Upds |-> NewUpd]
    /\ float_pattern = NULL
    /\ float_update = NewFloatUpdate
    /\ consumption_baselines = <<>>
    /\ baseline_cache = <<>>
    /\ cache_loaded = FALSE
    /\ boot = "init"
    /\ pred = NewPred
    /\ listing = NewListing
    /\ counting = NewCounting
    /\ schedulers = <<>>
    /\ consumption_scheduler = 0
    /\ scheduler_status = NewStatus
    /\ run = [s \in Scans |-> NewRun]
    /\ check_now_status = 0

(***************************************************************************)
(* The read routes of the confirmations                                    *)
(* (api_routes/consumption_prediction_routes.py).                          *)
(***************************************************************************)
\* The ids of S, largest first: order_by(created_at.desc()) over rows whose
\* ids grow with created_at.
IdsDescending(S) ==
    [i \in 1..Cardinality(S) |->
        CHOOSE c \in S : Cardinality({d \in S : d > c}) = i - 1]

\* The query of get_pending_confirmations (lines 746-750).
PendingListQuery(kitchen_id, current_time) ==
    IdsDescending({c \in DOMAIN pending_confirmations :
                      /\ pending_confirmations[c].kitchen_id = kitchen_id
                      /\ pending_confirmations[c].status = "pending"
                      /\ pending_confirmations[c].expires_at > current_time})

\* A variant of PendingCountQuery that counts the expired rows too.
PendingCountQueryAnyExpiry(kitchen_id, current_time) ==
    Cardinality({c \in DOMAIN pending_confirmations :
                    /\ pending_confirmations[c].kitchen_id = kitchen_id
                    /\ pending_confirmations[c].status = "pending"})

\* The query of get_pending_confirmations_count (lines 963-967).
PendingCountQuery(kitchen_id, current_time) ==
    Cardinality({c \in DOMAIN pending_confirmations :
                    /\ pending_confirmations[c].kitchen_id = kitchen_id
                    /\ pending_confirmations[c].status = "pending"
                    /\ pending_confirmations[c].expires_at > current_time})

\* get_pending_confirmations for an existing kitchen, asked by a member.
GetPendingConfirmations(kitchen_id) ==
    /\ listing' = [kitchen_id |-> kitchen_id, at |-> now,
                   confirmations |-> PendingListQuery(kitchen_id, now),
                   count |-> Len(PendingListQuery(kitchen_id, now))]
    /\ UNCHANGED <<not_reads, counting>>

\* get_pending_confirmations_count for an existing kitchen, asked by a member.
GetPendingConfirmationsCount(kitchen_id) ==
    /\ counting' = [kitchen_id |-> kitchen_id, at |-> now,
                    pending_count |-> PendingCountQuery(kitchen_id, now)]
    /\ UNCHANGED <<not_reads, listing>>

\* Rows of pending_confirmations as earlier scans and resolves left them:
\* created by a scan, then confirmed or denied or still pending, and expiring
\* one, two or three ticks after the instant at which the clock starts.
StoredItem(item_id, expires_at) ==
    [item_id |-> item_id, name |-> milk, quantity |-> 1, unit |-> "litre",
     added_at |-> expires_at - (CONFIRMATION_EXPIRY_DAYS + 1) * TicksPerDay,
     added_seq |-> 1]

StoredConfirmation(kitchen_id, item_id, status, expires_at) ==
    LET predicted == expires_at - CONFIRMATION_EXPIRY_DAYS * TicksPerDay
        row == NewConfirmation(kitchen_id, StoredItem(item_id, expires_at), predicted)
    IN  IF status = "pending" THEN row
        ELSE [row EXCEPT !.status = status, !.confirmed_at = predicted]

ConfirmationTables ==
    {<<>>}
    \cup {<<StoredConfirmation(k, 1, st, e)>> :
             k \in KitchenIds, st \in {"pending", "confirmed", "denied"}, e \in 1..3}
    \cup {<<StoredConfirmation(k1, 1, st1, e1), StoredConfirmation(k2, 2, st2, e2)>> :
             k1 \in KitchenIds, k2 \in KitchenIds,
             st1 \in {"pending", "confirmed", "denied"},
             st2 \in {"pending", "confirmed", "denied"},
             e1 \in 1..3, e2 \in 1..3}

\* The confirmations of earlier days are stored; the inventory rows they
\* were about are of no concern to the read routes.
InitReads ==
    /\ now = 0
    /\ kitchen_items = <<>>
    /\ pending_confirmations \in ConfirmationTables
    /\ kitchen_consumption_patterns = <<>>
    /\ consumption_events = <<>>
    /\ consumption_usage_events = <<>>
    /\ my_lists = <<>>
    /\ req = [r \in Reqs |-> NewReq]
    /\ scan = [s \in Scans |-> NewScan]
    /\ undisturbed = {}
    /\ n_faults = 0
    /\ n_inventory = 0
    /\ upd = [u \in Upds |-> NewUpd]
    /\ float_pattern = NULL
    /\ float_update = NewFloatUpdate
    /\ consumption_baselines = CONSUMPTION_BASELINES
    /\ baseline_cache = BaselineCache
    /\ cache_loaded = TRUE
    /\ boot = "serving"
    /\ pred = NewPred
    /\ listing = NewListing
    /\ counting = NewCounting
    /\ schedulers = <<>>
    /\ consumption_scheduler = 0
    /\ scheduler_status = NewStatus
    /\ run = [s \in Scans |-> NewRun]
    /\ check_now_status = 0

(***************************************************************************)
(* The scheduler (utils/scheduler.py) and its two routes                   *)
(* (api_routes/consumption_prediction_routes.py).  Every                   *)
(* ConsumptionScheduler() is an object of its own: a predictor and a       *)
(* started BackgroundScheduler whose job store is in memory.               *)
(***************************************************************************)
\* get_scheduled_jobs (lines 101-115): id and next run time of every job of
\* this object's BackgroundScheduler.
GetScheduledJobs(scheduler) ==
    {[id |-> j.id, next_run_time |-> j.next_run_time] : j \in scheduler.jobs}

\* get_scheduler_status (routes, lines 436-450): a ConsumptionScheduler is
\* constructed and asked for its jobs.  pred keeps the last prediction made
\* with the cache as it is.
GetSchedulerStatus(ok) ==
    /\ boot = "serving"
    /\ Len(schedulers) < MaxSchedulers
    /\ NewPredictor(ok)
    /\ schedulers' = Append(schedulers, NewScheduler)
    /\ scheduler_status' = [answered |-> TRUE,
                  jobs_count |-> Cardinality(GetScheduledJobs(NewScheduler)),
                  jobs |-> GetScheduledJobs(NewScheduler)]
    /\ pred' = IF baseline_cache' # baseline_cache THEN NewPred ELSE pred
    /\ UNCHANGED <<core, learner_vars, read_vars, consumption_baselines, boot,
                   consumption_scheduler, run, check_now_status>>

\* The calls of _run_consumption_check in progress.
Running == {t \in Scans : run[t].pc = "called"}

\* manual_consumption_check (routes, lines 384-433) with a kitchen_id that is
\* absent (0) or names a kitchen hosted by the caller: a ConsumptionScheduler
\* is constructed and run_check_now is called, which enters
\* _run_consumption_check.
CheckNow(s, specific_kitchen_id, ok) ==
    /\ boot = "serving"
    /\ Turn(ScanOrder, run, s)
    /\ specific_kitchen_id \in {0} \cup KitchenIds
    /\ Cardinality(Running) < MaxRunning
    /\ Len(schedulers) < MaxSchedulers
    /\ NewPredictor(ok)
    /\ schedulers' = Append(schedulers, NewScheduler)
    /\ run' = [run EXCEPT ![s] =
                  [pc |-> "called", trigger |-> "check_now",
                   scheduler |-> Len(schedulers) + 1,
                   specific_kitchen_id |-> specific_kitchen_id,
                   outcome |-> "none"]]
    /\ pred' = IF baseline_cache' # baseline_cache THEN NewPred ELSE pred
    /\ UNCHANGED <<core, learner_vars, read_vars, consumption_baselines, boot,
                   consumption_scheduler, scheduler_status, check_now_status>>

\* manual_consumption_check, lines 410-411: the kitchen does not exist.
CheckNowNotFound(specific_kitchen_id) ==
    /\ boot = "serving"
    /\ specific_kitchen_id \notin {0} \cup KitchenIds
    /\ check_now_status' = 404
    /\ UNCHANGED <<core, learner_vars, predictor_vars, read_vars, schedulers,
                   consumption_scheduler, scheduler_status, run>>

\* The job of the application's scheduler whose run time has come.
DueJobs ==
    IF consumption_scheduler = 0 THEN {}
    ELSE {j \in schedulers[consumption_scheduler].jobs : j.next_run_time <= now}

TimerRunning == \E t \in Scans : run[t].trigger = "timer" /\ run[t].pc = "called"

\* The cron trigger's next run time after a run at the current time.
Rescheduled(job) ==
    [job EXCEPT !.next_run_time =
        @ + TicksPerDay * (((now - @) \div TicksPerDay) + 1)]

\* The BackgroundScheduler runs the job: _run_consumption_check is entered on
\* the timer's thread and the job is scheduled for the next day.
TimerFire(s) ==
    /\ boot = "serving"
    /\ Turn(ScanOrder, run, s)
    /\ ~TimerRunning
    /\ Cardinality(Running) < MaxRunning
    /\ \E j \in DueJobs :
          schedulers' = [schedulers EXCEPT ![consumption_scheduler].jobs =
                            (@ \ {j}) \cup {Rescheduled(j)}]
    /\ run' = [run EXCEPT ![s] =
                  [pc |-> "called", trigger |-> "timer",
                   scheduler |-> consumption_scheduler,
                   specific_kitchen_id |-> 0, outcome |-> "none"]]
    /\ UNCHANGED <<core, learner_vars, predictor_vars, read_vars,
                   consumption_scheduler, scheduler_status, check_now_status>>

\* The run time comes while the previous run of the job is still going on
\* (add_job without max_instances: one instance): the run is skipped.
TimerSkip ==
    /\ boot = "serving"
    /\ TimerRunning
    /\ \E j \in DueJobs :
          schedulers' = [schedulers EXCEPT ![consumption_scheduler].jobs =
                            (@ \ {j}) \cup {Rescheduled(j)}]
    /\ UNCHANGED <<core, learner_vars, predictor_vars, read_vars,
                   consumption_scheduler, scheduler_status, run, check_now_status>>

\* _run_consumption_check, line 82: check_and_deplete_items is entered.
RunScanStart(s) ==
    /\ run[s].pc = "called"
    /\ ScanStart(s)

\* A variant of RunSessionFault in which the exception leaves
\* _run_consumption_check and ends the job.
RunSessionFaultEscaping(s) ==
    /\ run[s].pc = "called"
    /\ Turn(ScanOrder, scan, s)
    /\ n_faults < MaxFaults
    /\ n_faults' = n_faults + 1
    /\ scan' = [scan EXCEPT ![s] = [NewScan EXCEPT !.pc = "done"]]
    /\ run' = [run EXCEPT ![s].pc = "returned", ![s].outcome = "raised"]
    /\ check_now_status' = IF run[s].trigger = "check_now" THEN 500
                           ELSE check_now_status
    /\ UNCHANGED <<now, db, req, undisturbed, n_inventory, learner_vars,
                   predictor_vars, read_vars, schedulers, consumption_scheduler,
                   scheduler_status>>

\* get_session() of check_and_deplete_items (predictor, line 461, outside
\* its try) raises: the exception reaches _run_consumption_check, whose
\* except clause (scheduler.py, lines 86-90) returns {'error': ...}.
RunSessionFault(s) ==
    /\ run[s].pc = "called"
    /\ Turn(ScanOrder, scan, s)
    /\ n_faults < MaxFaults
    /\ n_faults' = n_faults + 1
    /\ scan' = [scan EXCEPT ![s] = [NewScan EXCEPT !.pc = "done"]]
    /\ run' = [run EXCEPT ![s].pc = "returned", ![s].outcome = "error"]
    /\ check_now_status' = IF run[s].trigger = "check_now" THEN 200
                           ELSE check_now_status
    /\ UNCHANGED <<now, db, req, undisturbed, n_inventory, learner_vars,
                   predictor_vars, read_vars, schedulers, consumption_scheduler,
                   scheduler_status>>

\* check_and_deplete_items, lines 611-614: a query of the scan raises; the
\* error is added to the summary, which is returned.
ScanFault(s) ==
    /\ scan[s].pc \in {"kitchens", "groups"}
    /\ n_faults < MaxFaults
    /\ n_faults' = n_faults + 1
    /\ scan' = [scan EXCEPT ![s] =
          [NewScan EXCEPT !.pc = "done",
                          !.summary = [scan[s].summary EXCEPT !.errors = @ + 1],
                          !.created = scan[s].created,
                          !.skipped = scan[s].skipped,
                          !.after = scan[s].after]]
    /\ UNCHANGED <<aux, now, db, req, undisturbed, n_inventory>>

\* check_and_deplete_items, lines 594-597: create_pending_confirmation
\* raises (its session is rolled back, lines 435-438); the error is added to
\* the summary and the loop goes on.
ScanCreateFault(s, item_name, oldest_item) ==
    LET kitchen_id == scan[s].kitchen_id
        item_group == {it \in scan[s].items : Lower(it.name) = item_name}
        days_elapsed == DaysBetween(oldest_item.added_at, scan[s].current_time)
        prediction == GetPredictedConsumptionDays(kitchen_consumption_patterns,
                                                  baseline_cache, kitchen_id, item_name)
        predicted_days == IF prediction < PREDICTION_CAP THEN prediction
                          ELSE PREDICTION_CAP
        lookup_key == <<kitchen_id, oldest_item.item_id>>
        last == scan[s].groups = {item_name}
    IN  /\ scan[s].pc = "groups"
        /\ item_name \in scan[s].groups
        /\ oldest_item \in OldestItems(item_group)
        /\ days_elapsed >= predicted_days
        /\ lookup_key \notin scan[s].pending_lookup
        /\ n_faults < MaxFaults
        /\ n_faults' = n_faults + 1
        /\ scan' = [scan EXCEPT
              ![s].groups = @ \ {item_name},
              ![s].items = IF last THEN {} ELSE @,
              ![s].pc = IF last THEN "kitchens" ELSE "groups",
              ![s].summary.items_checked = @ + Cardinality(item_group),
              ![s].summary.errors = @ + 1]
        /\ UNCHANGED <<aux, now, db, req, undisturbed, n_inventory>>

\* check_and_deplete_items, line 557: get_predicted_consumption_days raises
\* (its query of line 93 fails; lines 88-124 have a finally and no except).
\* The call is outside the try of line 566: the exception reaches the except
\* of lines 611-614, which adds the error to the summary and returns it.
ScanPredictFault(s, item_name) ==
    LET item_group == {it \in scan[s].items : Lower(it.name) = item_name}
    IN  /\ scan[s].pc = "groups"
        /\ item_name \in scan[s].groups
        /\ n_faults < MaxFaults
        /\ n_faults' = n_faults + 1
        /\ scan' = [scan EXCEPT ![s] =
              [NewScan EXCEPT
                  !.pc = "done",
                  !.summary = [scan[s].summary EXCEPT
                                  !.items_checked = @ + Cardinality(item_group),
                                  !.errors = @ + 1],
                  !.created = scan[s].created,
                  !.skipped = scan[s].skipped,
                  !.after = scan[s].after]]
        /\ UNCHANGED <<aux, now, db, req, undisturbed, n_inventory>>

\* _run_consumption_check, lines 82-85: check_and_deplete_items has returned
\* its summary, which is returned; manual_consumption_check answers 200.
RunReturn(s) ==
    /\ run[s].pc = "called"
    /\ scan[s].pc = "done"
    /\ run' = [run EXCEPT ![s].pc = "returned", ![s].outcome = "summary"]
    /\ check_now_status' = IF run[s].trigger = "check_now" THEN 200
                           ELSE check_now_status
    /\ UNCHANGED <<core, learner_vars, predictor_vars, read_vars, schedulers,
                   consumption_scheduler, scheduler_status>>

\* The inventory as earlier requests left it: milk bought a day before the
\* clock starts, in one kitchen or in two.
StoredRow(kitchen_id, seq) ==
    [kitchen_id |-> kitchen_id, name |-> milk, quantity |-> 1, unit |-> "litre",
     added_at |-> 0 - TicksPerDay, added_seq |-> seq, present |-> TRUE]

InventoryTables ==
    {<<>>} \cup {<<StoredRow(k, 1)>> : k \in KitchenIds}
           \cup {<<StoredRow(1, 1), StoredRow(2, 2)>>}

\* The process is starting: the baselines are populated, the routes module
\* is imported, the scheduler is about to be set up.
InitScheduler ==
    /\ now = 0
    /\ kitchen_items \in InventoryTables
    /\ pending_confirmations = <<>>
    /\ kitchen_consumption_patterns = <<>>
    /\ consumption_events = <<>>
    /\ consumption_usage_events = <<>>
    /\ my_lists = <<>>
    /\ req = [r \in Reqs |-> NewReq]
    /\ scan = [s \in Scans |-> NewScan]
    /\ undisturbed = {}
    /\ n_faults = 0
    /\ n_inventory = 0
    /\ upd = [u \in Upds |-> NewUpd]
    /\ float_pattern = NULL
    /\ float_update = NewFloatUpdate
    /\ consumption_baselines = CONSUMPTION_BASELINES
    /\ baseline_cache = BaselineCache
    /\ cache_loaded = TRUE
    /\ boot = "scheduler"
    /\ pred = NewPred
    /\ listing = NewListing
    /\ counting = NewCounting
    /\ schedulers = <<>>
    /\ consumption_scheduler = 0
    /\ scheduler_status = NewStatus
    /\ run = [s \in Scans |-> NewRun]
    /\ check_now_status = 0

\* An item a scan of an earlier day flagged and the user never answered
\* about: the row is still in the inventory and its confirmation is pending,
\* to expire one, two or three ticks after the clock starts; more of the
\* same item may have been bought since.
ExpiringTables ==
    {[kitchen_items |-> <<[StoredRow(1, 1) EXCEPT !.added_at = StoredItem(1, e).added_at]>>
                           \o rest,
      pending_confirmations |-> <<StoredConfirmation(1, 1, "pending", e)>>] :
        e \in 1..3, rest \in {<<>>, <<StoredRow(1, 2)>>}}

InitExpiry ==
    /\ now = 0
    /\ \E t \in ExpiringTables :
          /\ kitchen_items = t.kitchen_items
          /\ pending_confirmations = t.pending_confirmations
    /\ kitchen_consumption_patterns = <<>>
    /\ consumption_events = <<>>
    /\ consumption_usage_events = <<>>
    /\ my_lists = <<>>
    /\ req = [r \in Reqs |-> NewReq]
    /\ scan = [s \in Scans |-> NewScan]
    /\ undisturbed = {}
    /\ n_faults = 0
    /\ n_inventory = 0
    /\ upd = [u \in Upds |-> NewUpd]
    /\ float_pattern = NULL
    /\ float_update = NewFloatUpdate
    /\ consumption_baselines = CONSUMPTION_BASELINES
    /\ baseline_cache = BaselineCache
    /\ cache_loaded = TRUE
    /\ boot = "serving"
    /\ pred = NewPred
    /\ listing = NewListing
    /\ counting = NewCounting
    /\ schedulers = <<>>
    /\ consumption_scheduler = 0
    /\ scheduler_status = NewStatus
    /\ run = [s \in Scans |-> NewRun]
    /\ check_now_status = 0

(***************************************************************************)
(* The specifications.                                                     *)
(***************************************************************************)
\* The clock and the inventory requests.
Environment ==
    \/ Tick
    \/ \E k \in Kitchens, it \in InputItems, e \in BOOLEAN :
          AddItem(k, it.name, it.quantity, it.unit, e)
    \/ \E k \in Kitchens, i \in ItemIds : RemoveItems(k, i)
    \/ \E k \in Kitchens, i \in ItemIds, q \in {NoQuantity, 0},
          n \in {NoName} \cup InputRenames, e \in BOOLEAN :
          UpdateItems(k, i, q, n, e)
    \/ \E k \in Kitchens, g \in InputIngredients : RecipeFinish(k, g)

\* The scans S.
Scanner(S) ==
    \/ \E s \in S : ScanStart(s)
    \/ \E s \in S, k \in Kitchens : ScanKitchen(s, k)
    \/ \E s \in S : \E name \in scan[s].groups :
          \E it \in scan[s].items : ScanGroup(s, name, it)
    \/ \E s \in S : ScanReturn(s)

\* The calls R of respond_to_confirmation.
Resolver(R) ==
    \/ \E r \in R, c \in 1..(Len(pending_confirmations) + 1) :
          \/ RespondRead(r, c, "confirmed", NoQuantity)
          \/ \E a \in {NoQuantity, 1} : RespondRead(r, c, "denied", a)
    \/ \E r \in R : RespondDenied(r)
    \/ \E r \in R : RespondDelete(r)
    \/ \E r \in R : RespondPatternWrite(r)
    \/ \E r \in R : RespondCommit(r)
    \/ \E r \in R : RespondError(r)

\* The scans S run as the timer job 'daily_consumption_check' alone: the
\* scheduler never runs two instances of one job at a time (add_job is called
\* without max_instances).
NoScanRunning == \A t \in Scans : scan[t].pc \in {"new", "done"}

TimerScanner(S) ==
    \/ \E s \in S : NoScanRunning /\ ScanStart(s)
    \/ \E s \in S, k \in Kitchens : ScanKitchen(s, k)
    \/ \E s \in S : \E name \in scan[s].groups :
          \E it \in scan[s].items : ScanGroup(s, name, it)
    \/ \E s \in S : ScanReturn(s)

\* One scan, two calls of respond_to_confirmation in parallel.
Next == Environment \/ Scanner({"s1"}) \/ Resolver(Reqs)

Spec == Init /\ [][Next]_vars

\* Two scans in parallel: the timer job and run_check_now.
NextScans == Environment \/ Scanner(Scans)

SpecScans == Init /\ [][NextScans]_vars

\* Two scans one after the other, one call of respond_to_confirmation.
NextRescan == Environment \/ TimerScanner(Scans) \/ Resolver({"r1"})

SpecRescan == Init /\ [][NextRescan]_vars

\* The calls U of update_consumption_pattern.
Learner(U) ==
    \/ \E u \in U, k \in Kitchens, a \in UpdateInputs :
          UpdateRead(u, k, a.item_name, a.days_lasted, a.quantity, a.unit)
    \/ \E u \in U : UpdateWrite(u)

\* Concurrent confirmed depletions, seen from the learner.
NextLearner == Learner(Upds)
SpecLearner == Init /\ [][NextLearner]_vars

\* The calls of update_consumption_pattern for one pattern, in sequence.
NextFloat == \E i \in FloatInputs : FloatUpdate(i.days_lasted, i.quantity, i.unit)
SpecFloat == Init /\ [][NextFloat]_vars

\* The start-up and the prediction requests.
Predictor ==
    \/ \E ok \in BOOLEAN : BootInit(ok)
    \/ \E ok \in BOOLEAN : BootImport(ok)
    \/ \E enabled \in BOOLEAN, ok \in BOOLEAN, first_run \in now..(now + TicksPerDay - 1) :
          BootScheduler(enabled, ok, first_run)
    \/ \E ok \in BOOLEAN : BootPopulate(ok)
    \/ \E ok \in BOOLEAN : GetSchedulerStatus(ok)
    \/ \E k \in Kitchens, n \in PredictNames : Predict(k, n)
    \/ \E k \in Kitchens, n \in PredictNames, q \in PredictQuantities,
          u \in PredictUnits : PredictForQuantity(k, n, q, u)

NextPredict == Predictor
SpecPredict == InitPredict /\ [][NextPredict]_vars

\* The read routes of the confirmations, while the clock runs.
Reads ==
    \/ \E k \in KitchenIds : GetPendingConfirmations(k)
    \/ \E k \in KitchenIds : GetPendingConfirmationsCount(k)

NextReads == Tick \/ Reads
SpecReads == InitReads /\ [][NextReads]_vars

\* The scheduler, its routes and the scans they run.
Scheduler ==
    \/ \E enabled \in BOOLEAN, ok \in BOOLEAN, first_run \in now..(now + TicksPerDay - 1) :
          BootScheduler(enabled, ok, first_run)
    \/ \E ok \in BOOLEAN : BootPopulate(ok)
    \/ \E ok \in BOOLEAN : GetSchedulerStatus(ok)
    \/ \E s \in Scans, k \in {0} \cup KitchenIds, ok \in BOOLEAN : CheckNow(s, k, ok)
    \/ \E k \in {3} : CheckNowNotFound(k)
    \/ \E s \in Scans : TimerFire(s)
    \/ TimerSkip
    \/ \E s \in Scans : RunScanStart(s)
    \/ \E s \in Scans : RunSessionFault(s)
    \/ \E s \in Scans, k \in KitchenIds : ScanKitchen(s, k)
    \/ \E s \in Scans : \E name \in scan[s].groups :
          \E it \in scan[s].items : ScanGroup(s, name, it)
    \/ \E s \in Scans : \E name \in scan[s].groups :
          \E it \in scan[s].items : ScanCreateFault(s, name, it)
    \/ \E s \in Scans : \E name \in scan[s].groups : ScanPredictFault(s, name)
    \/ \E s \in Scans : ScanFault(s)
    \/ \E s \in Scans : ScanReturn(s)
    \/ \E s \in Scans : RunReturn(s)

NextScheduler == Tick \/ Scheduler
SpecScheduler == InitScheduler /\ [][NextScheduler]_vars

\* The scans and the read routes over confirmations that expire while the
\* clock runs.
NextExpiry == Tick \/ Scanner(Scans) \/ Reads
SpecExpiry == InitExpiry /\ [][NextExpiry]_vars

(***************************************************************************)
(* The claims.                                                             *)
(***************************************************************************)
Pending(c) == pending_confirmations[c].status = "pending"

Terminal(status) == status \in {"confirmed", "denied"}

LookupKey(c) == <<pending_confirmations[c].kitchen_id, pending_confirmations[c].item_id>>

PendingFor(key) == {c \in DOMAIN pending_confirmations : Pending(c) /\ LookupKey(c) = key}

\* C1: at any moment at most one pending confirmation exists for a household
\* and an inventory item, also when two scans run at the same time.
C1_OnePendingPerItem ==
    \A c, d \in DOMAIN pending_confirmations :
        (Pending(c) /\ Pending(d) /\ LookupKey(c) = LookupKey(d)) => c = d

\* C2: of the resolve attempts made on one confirmation at most one is
\* answered with success; the others fail.
C2_OneResolveSucceeds ==
    \A r, q \in Reqs :
        (/\ req[r].pc = "done" /\ req[r].status = 200
         /\ req[q].pc = "done" /\ req[q].status = 200
         /\ req[r].confirmation_id = req[q].confirmation_id) => r = q

ConfirmedEventsOf(item_id) ==
    {e \in DOMAIN consumption_events :
        /\ consumption_events[e].method = "confirmed"
        /\ consumption_events[e].item_id = item_id}

ConfirmedFor(item_id) ==
    {c \in DOMAIN pending_confirmations :
        /\ pending_confirmations[c].status = "confirmed"
        /\ pending_confirmations[c].item_id = item_id}

LearnedFor(item_id) ==
    {r \in Reqs : /\ req[r].learned
                  /\ pending_confirmations[req[r].confirmation_id].item_id = item_id}

\* C3: the confirmed path is all-or-nothing: once no resolve is in flight, an
\* item has a depletion event of a confirmed resolve, or a pattern update made
\* for it, exactly if a confirmation of it is confirmed, and then the
\* inventory row is gone.
C3_AllOrNothing ==
    InFlight = {} =>
        \A i \in DOMAIN kitchen_items :
            /\ (ConfirmedEventsOf(i) # {}) <=> (ConfirmedFor(i) # {})
            /\ (LearnedFor(i) # {}) <=> (ConfirmedFor(i) # {})
            /\ (ConfirmedFor(i) # {}) => ~kitchen_items[i].present

\* C4: a successful confirmed response has advanced sample_count once, and
\* no sequence of attempts advances it twice for the same confirmation.
C4_OneSamplePerConfirmation ==
    /\ \A r \in Reqs :
          (req[r].pc = "done" /\ req[r].response = "confirmed" /\ req[r].status = 200)
              => req[r].learned
    /\ \A r, q \in Reqs :
          (/\ req[r].learned /\ req[q].learned
           /\ req[r].confirmation_id = req[q].confirmation_id) => r = q

\* The columns of a confirmation the denied branch does not write.
KeptByDenial(row) ==
    [f \in DOMAIN row \ {"status", "confirmed_at", "actual_quantity_remaining"} |-> row[f]]

\* C5: a step that makes a confirmation denied changes that row only (its
\* status, confirmed_at and actual_quantity_remaining): inventory, patterns,
\* depletion events, usage events, shopping list and the other confirmations
\* stay as they are.
C5_DenialChangesOnlyTheConfirmation ==
    [][\A c \in DOMAIN pending_confirmations :
          (/\ pending_confirmations[c].status # "denied"
           /\ pending_confirmations'[c].status = "denied")
          => /\ UNCHANGED <<kitchen_items, kitchen_consumption_patterns,
                            consumption_events, consumption_usage_events, my_lists>>
             /\ DOMAIN pending_confirmations' = DOMAIN pending_confirmations
             /\ \A d \in DOMAIN pending_confirmations \ {c} :
                   pending_confirmations'[d] = pending_confirmations[d]
             /\ KeptByDenial(pending_confirmations'[c])
                   = KeptByDenial(pending_confirmations[c])]_vars

\* A denial was answered with success and the inventory row is still there.
C5_Witness ==
    \E r \in Reqs :
        /\ req[r].pc = "done" /\ req[r].response = "denied" /\ req[r].status = 200
        /\ pending_confirmations[req[r].confirmation_id].status = "denied"
        /\ kitchen_items[pending_confirmations[req[r].confirmation_id].item_id].present

\* The step is made by a confirmed resolve between its DELETE and its
\* pattern write.
ConfirmedResolveStep ==
    \E r \in Reqs : /\ req[r].response = "confirmed"
                    /\ req[r].pc \in {"read", "patread"}
                    /\ req'[r].pc # req[r].pc

\* C6 as stated: only a confirmed resolve produces a depletion event or
\* changes a pattern; no scan, denial, manual removal or recipe completion does.
C6_OnlyConfirmedResolvesLog ==
    [][(\/ consumption_events' # consumption_events
        \/ kitchen_consumption_patterns' # kitchen_consumption_patterns)
       => ConfirmedResolveStep]_vars

\* C6, amended: only a confirmed resolve changes a pattern or appends a
\* depletion event of method "confirmed"; every other step that appends a
\* depletion event is an inventory request (manual removal, recipe
\* completion), the event carries method "manual" or "recipe", and no
\* pattern, scan or confirmation changes in it.
C6_OnlyConfirmedResolvesLearn ==
    [][/\ kitchen_consumption_patterns' # kitchen_consumption_patterns
            => ConfirmedResolveStep
       /\ consumption_events' # consumption_events
            => /\ Len(consumption_events') = Len(consumption_events) + 1
               /\ SubSeq(consumption_events', 1, Len(consumption_events))
                     = consumption_events
               /\ IF ConfirmedResolveStep
                  THEN consumption_events'[Len(consumption_events')].method = "confirmed"
                  ELSE /\ consumption_events'[Len(consumption_events')].method
                             \in {"manual", "recipe"}
                       /\ n_inventory' = n_inventory + 1
                       /\ UNCHANGED <<kitchen_consumption_patterns,
                                      pending_confirmations, scan, req>>]_vars

\* A manual removal or a recipe completion has logged a depletion event next
\* to the one of a confirmed resolve, which alone made the pattern.
C6_Witness ==
    /\ \E e \in DOMAIN consumption_events :
          consumption_events[e].method \in {"manual", "recipe"}
    /\ \E e \in DOMAIN consumption_events : consumption_events[e].method = "confirmed"
    /\ \E k \in DOMAIN kitchen_consumption_patterns :
          kitchen_consumption_patterns[k].sample_count = 1

PatternKey(c) ==
    <<pending_confirmations[c].kitchen_id,
      NormalizeName(pending_confirmations[c].item_name)>>

\* The depletion events confirmed resolves logged for a pattern key.
ConfirmedEventsOfKey(key) ==
    {e \in DOMAIN consumption_events :
        /\ consumption_events[e].method = "confirmed"
        /\ <<consumption_events[e].kitchen_id,
             NormalizeName(consumption_events[e].item_name)>> = key}

SampleCount(key) ==
    IF key \in DOMAIN kitchen_consumption_patterns
    THEN kitchen_consumption_patterns[key].sample_count
    ELSE 0

\* C7: pattern updates are serialized: without storage errors no confirmed
\* depletion fails, and once no resolve is in flight the sample_count of an
\* item name has risen by one for every confirmed depletion logged for it, also
\* when two of them were processed at the same time.
C7_PatternUpdatesSerialized ==
    n_faults = 0 =>
        /\ \A r \in Reqs : req[r].pc = "done" => req[r].status # 500
        /\ InFlight = {} =>
              \A c \in DOMAIN pending_confirmations :
                  SampleCount(PatternKey(c))
                      = Cardinality(ConfirmedEventsOfKey(PatternKey(c)))

\* C8: a resolve attempt on a confirmation that is confirmed or denied, or on
\* an id that does not exist, is answered 404 at once and changes no table.
C8_ProcessedIsRejected ==
    [][\A r \in Reqs :
          (/\ req[r].pc = "new"
           /\ req'[r].pc # "new"
           /\ \/ req'[r].confirmation_id \notin DOMAIN pending_confirmations
              \/ Terminal(pending_confirmations[req'[r].confirmation_id].status))
          => /\ req'[r].pc = "done"
             /\ req'[r].status = 404
             /\ UNCHANGED db]_vars

\* A resolve attempt on a processed confirmation was answered 404.
C8_Witness ==
    \E r \in Reqs :
        /\ req[r].pc = "done" /\ req[r].status = 404
        /\ req[r].message = "not found or already processed"
        /\ req[r].confirmation_id \in DOMAIN pending_confirmations
        /\ Terminal(pending_confirmations[req[r].confirmation_id].status)

\* C9: confirmed and denied are terminal: no step changes the status of a
\* confirmation that is confirmed or denied.
C9_TerminalStatusKept ==
    [][\A c \in DOMAIN pending_confirmations :
          Terminal(pending_confirmations[c].status)
              => pending_confirmations'[c].status = pending_confirmations[c].status]_vars

\* C10: when a scan t runs after a scan s has returned, and since the start
\* of s no inventory row was written and no resolve wrote anything, then t
\* creates no confirmation for an item s created one for, t counts each such
\* item as skipped, and each such item has exactly one pending confirmation.
C10_RescanSkipsFlagged ==
    \A s, t \in Scans :
        (s \in scan[t].after /\ s \in undisturbed)
        => /\ scan[t].created \cap scan[s].created = {}
           /\ \A key \in scan[s].created : Cardinality(PendingFor(key)) = 1
           /\ scan[t].pc = "done"
                 => /\ scan[s].created \subseteq scan[t].skipped
                    /\ scan[t].summary.confirmations_skipped
                          >= Cardinality(scan[s].created)

\* The second of two scans in succession has returned, and the first had
\* created a confirmation.
C10_Witness ==
    \E s, t \in Scans :
        /\ s \in scan[t].after /\ s \in undisturbed
        /\ scan[s].created # {}
        /\ scan[t].pc = "done"


C12_SampleCountGrowsByOne ==
    [][/\ \A key \in DOMAIN kitchen_consumption_patterns :
             /\ key \in DOMAIN kitchen_consumption_patterns'
             /\ kitchen_consumption_patterns'[key].sample_count
                   >= kitchen_consumption_patterns[key].sample_count
       /\ \A u \in Upds :
             LET key == <<upd[u].kitchen_id, upd[u].item_name_lower>>
             IN  upd[u].pc = "read" /\ upd'[u].pc = "done"
                 => kitchen_consumption_patterns'[key].sample_count
                       = IF key \in DOMAIN kitchen_consumption_patterns
                         THEN kitchen_consumption_patterns[key].sample_count + 1
                         ELSE 1]_vars

\* C13: the confidence of every pattern is the tier of its sample_count, and
\* its learning_rate is the rate of that tier.
C13_ConfidenceIsTierOfSampleCount ==
    \A key \in DOMAIN kitchen_consumption_patterns :
        LET pattern == kitchen_consumption_patterns[key]
        IN  /\ pattern.confidence = GetConfidenceLevel(pattern.sample_count)
            /\ pattern.learning_rate
                  = GetAdaptiveLearningRate(pattern.sample_count, pattern.confidence)


\* The pattern the last prediction call was about, when the household has
\* learned one for the normalized name from at least two samples.
PredPatternKey == <<pred.kitchen_id, NormalizeName(pred.item_name)>>

Personalized ==
    /\ PredPatternKey \in DOMAIN kitchen_consumption_patterns
    /\ kitchen_consumption_patterns[PredPatternKey].sample_count >= 2

\* r is the integer nearest to the rational x (the even one of two nearest).
IsRounded(r, x) ==
    /\ 2 * Abs(x.n - r * x.d) <= x.d
    /\ 2 * Abs(x.n - r * x.d) = x.d => r % 2 = 0

\* C14, as stated: predictedDays returns round(personalized_days) exactly
\* when a pattern with sample_count >= 2 exists for the normalized name;
\* otherwise the avg_days of the baseline of that name when the table of
\* baselines has one, and 14 when it has none.
C14_PersonalizedOrBaselineOrDefault ==
    pred.fn = "days" =>
        IF Personalized
        THEN IsRounded(pred.result,
                       kitchen_consumption_patterns[PredPatternKey].personalized_days)
        ELSE IF NormalizeName(pred.item_name) \in DOMAIN consumption_baselines
        THEN pred.result = consumption_baselines[NormalizeName(pred.item_name)]
        ELSE pred.result = 14

\* C14, amended: without such a pattern the result is taken from the loaded
\* lookup when that is not empty (its days for the name, or 14), and from
\* the built-in table when the lookup is empty (its days for the name, or 14).
C14_PersonalizedOrLookupOrBuiltIn ==
    pred.fn = "days" =>
        IF Personalized
        THEN IsRounded(pred.result,
                       kitchen_consumption_patterns[PredPatternKey].personalized_days)
        ELSE IF DOMAIN baseline_cache # {}
        THEN IF NormalizeName(pred.item_name) \in DOMAIN baseline_cache
             THEN pred.result = baseline_cache[NormalizeName(pred.item_name)]
             ELSE pred.result = 14
        ELSE IF NormalizeName(pred.item_name) \in DOMAIN CONSUMPTION_BASELINES
             THEN pred.result = CONSUMPTION_BASELINES[NormalizeName(pred.item_name)]
             ELSE pred.result = 14

\* A pattern of one sample and 4 days exists for "milk"; the prediction for
\* " Milk" is the baseline of the loaded lookup, 1 day.
C14_Witness ==
    /\ pred.fn = "days"
    /\ pred.item_name # NormalizeName(pred.item_name)
    /\ PredPatternKey \in DOMAIN kitchen_consumption_patterns
    /\ kitchen_consumption_patterns[PredPatternKey].sample_count = 1
    /\ kitchen_consumption_patterns[PredPatternKey].personalized_days = RInt(4)
    /\ DOMAIN baseline_cache # {}
    /\ pred.result = 1

\* C15, as stated: when the lookup was loaded from an empty table,
\* predictedDays returns 14 for every item without a pattern of two samples.
C15_EmptyDatasetGivesDefault ==
    /\ cache_loaded
    /\ DOMAIN baseline_cache = {}
    /\ pred.fn = "days"
    /\ ~Personalized
    => pred.result = 14

\* C15, amended: when the lookup was loaded from an empty table,
\* predictedDays returns, for an item without a pattern of two samples, the
\* days of the built-in table for the normalized name, and 14 when the
\* built-in table does not have the name.
C15_EmptyDatasetGivesBuiltIn ==
    /\ cache_loaded
    /\ DOMAIN baseline_cache = {}
    /\ pred.fn = "days"
    /\ ~Personalized
    => pred.result =
          IF NormalizeName(pred.item_name) \in DOMAIN CONSUMPTION_BASELINES
          THEN CONSUMPTION_BASELINES[NormalizeName(pred.item_name)]
          ELSE 14

\* The lookup was loaded empty and the prediction for milk is 1 day.
C15_Witness ==
    /\ cache_loaded
    /\ DOMAIN baseline_cache = {}
    /\ pred.fn = "days"
    /\ ~Personalized
    /\ NormalizeName(pred.item_name) = milk
    /\ pred.result = 1

\* C16: predictedDaysForQuantity returns round(quantity / consumption_rate)
\* exactly when a pattern with sample_count >= 2 exists whose
\* consumption_rate is set and whose unit is the requested one; in every
\* other case the result is that of predictedDays.
C16_RateBasedOrDelegated ==
    pred.fn = "for_quantity" =>
        IF /\ Personalized
           /\ kitchen_consumption_patterns[PredPatternKey].consumption_rate # NULL
           /\ kitchen_consumption_patterns[PredPatternKey].unit = pred.unit
        THEN IsRounded(pred.result,
                       RDiv(RInt(pred.quantity),
                            kitchen_consumption_patterns[PredPatternKey].consumption_rate))
        ELSE pred.result =
                GetPredictedConsumptionDays(kitchen_consumption_patterns,
                                            baseline_cache, pred.kitchen_id,
                                            pred.item_name)

\* A pattern of two samples has a rate in another unit than the requested
\* one: the call delegates, and a rate-based result would have differed.
C16_Witness ==
    /\ pred.fn = "for_quantity"
    /\ Personalized
    /\ kitchen_consumption_patterns[PredPatternKey].consumption_rate # NULL
    /\ kitchen_consumption_patterns[PredPatternKey].unit # pred.unit
    /\ pred.result # Round(RDiv(RInt(pred.quantity),
                        kitchen_consumption_patterns[PredPatternKey].consumption_rate))


\* C17: the list of pending confirmations of a household holds exactly the
\* confirmations of that household with status pending and expires_at > now,
\* each once, and the count returned at the same instant is the size of
\* that list.
C17_PendingListAndCountAgree ==
    /\ listing.at # NoTime =>
          /\ {listing.confirmations[i] : i \in DOMAIN listing.confirmations}
                = {c \in DOMAIN pending_confirmations :
                      /\ pending_confirmations[c].kitchen_id = listing.kitchen_id
                      /\ Pending(c)
                      /\ pending_confirmations[c].expires_at > listing.at}
          /\ \A i, j \in DOMAIN listing.confirmations :
                listing.confirmations[i] = listing.confirmations[j] => i = j
          /\ listing.count = Len(listing.confirmations)
    /\ /\ listing.at # NoTime
       /\ counting.at = listing.at
       /\ counting.kitchen_id = listing.kitchen_id
       => counting.pending_count = Len(listing.confirmations)

\* Two pending confirmations of one household, one of them expired: list and
\* count of the same instant show the other one only.
C17_Witness ==
    /\ listing.at # NoTime
    /\ counting.at = listing.at
    /\ counting.kitchen_id = listing.kitchen_id
    /\ Len(listing.confirmations) = 1
    /\ counting.pending_count = 1
    /\ \E c \in DOMAIN pending_confirmations :
          /\ pending_confirmations[c].kitchen_id = listing.kitchen_id
          /\ Pending(c)
          /\ pending_confirmations[c].expires_at <= listing.at


\* The daily job is registered on the application's scheduler.
DailyJobRegistered ==
    /\ consumption_scheduler # 0
    /\ \E j \in schedulers[consumption_scheduler].jobs : j.id = "daily_consumption_check"

\* C18: once start_daily_checks has registered the daily job, the job list
\* a scheduler-status request returns contains the job
\* daily_consumption_check.
C18_StatusListsDailyJob ==
    (scheduler_status.answered /\ DailyJobRegistered)
        => \E j \in scheduler_status.jobs : j.id = "daily_consumption_check"

\* A call of _run_consumption_check whose scan failed.
FailedRun(s) ==
    /\ run[s].pc = "returned"
    /\ run[s].outcome # "summary" \/ scan[s].summary.errors > 0

\* C19: a call of _run_consumption_check, made by the timer or by
\* run_check_now, returns a value whatever the scan raised (check_now never
\* answers 500), and once a timer run has been made the daily job stays
\* registered on its scheduler, with a next run time.
C19_ScanFailureStaysInScheduler ==
    /\ \A s \in Scans :
          run[s].pc = "returned" => run[s].outcome \in {"summary", "error"}
    /\ check_now_status # 500
    /\ \A s \in Scans :
          run[s].trigger = "timer" =>
             \E j \in schedulers[run[s].scheduler].jobs :
                /\ j.id = "daily_consumption_check"
                /\ j.next_run_time # NoTime

\* A timer run failed with an exception, and the timer ran the scan again
\* afterwards.
C19_Witness ==
    \E s, t \in Scans :
        /\ run[s].trigger = "timer" /\ FailedRun(s) /\ run[s].outcome = "error"
        /\ run[t].trigger = "timer" /\ s \in scan[t].after

\* C20: a check_now request that names a kitchen creates pending
\* confirmations for items of that kitchen only.
C20_CheckNowChecksNamedKitchenOnly ==
    \A s \in Scans :
        (run[s].trigger = "check_now" /\ run[s].specific_kitchen_id # 0)
            => \A key \in scan[s].created : key[1] = run[s].specific_kitchen_id


\* C21: when the evaluation of an item raises (the step adds an error to the
\* summary while the scan is in a kitchen's item groups), the scan goes on:
\* the other groups of the kitchen and the kitchens not yet visited are
\* still to be evaluated.
C21_ItemErrorDoesNotStopScan ==
    [][\A s \in Scans :
          (scan[s].pc = "groups" /\ scan'[s].summary.errors > scan[s].summary.errors)
             => /\ scan'[s].pc \in {"groups", "kitchens"}
                /\ scan'[s].kitchens = scan[s].kitchens
                /\ \E name \in scan[s].groups :
                      scan'[s].groups = scan[s].groups \ {name}]_vars


\* C22: when a scan creates a confirmation for an item, the item is the
\* earliest added of the valid items of its kitchen (as the scan fetched
\* them) that have the same normalized name.
C22_OnlyOldestOfNameFlagged ==
    [][\A s \in Scans : \A key \in scan'[s].created \ scan[s].created :
          \A flagged \in scan[s].items, other \in scan[s].items :
             (/\ flagged.item_id = key[2]
              /\ NormalizeName(other.name) = NormalizeName(flagged.name))
                => ~Earlier(other, flagged)]_vars


\* x lies between a and b, inclusive.
FBetween(a, b, x) ==
    \/ FLeq(a, x) /\ FLeq(x, b)
    \/ FLeq(b, x) /\ FLeq(x, a)

\* C23: after an update of an existing pattern, personalized_days lies
\* between the old average and days_lasted, inclusive, and consumption_rate
\* lies between the old rate and the observed rate, inclusive.
C23_EmaBetweenOldAndObserved ==
    (float_update.called /\ float_update.pattern # NULL) =>
        /\ FBetween(float_update.pattern.personalized_days,
                    FInt(float_update.days_lasted),
                    float_pattern.personalized_days)
        /\ FBetween(float_update.pattern.consumption_rate,
                    FloatConsumptionRate(float_update.quantity,
                                         float_update.days_lasted),
                    float_pattern.consumption_rate)


\* C24: an update that supplies a quantity and a unit other than the unit
\* stored on the existing pattern leaves consumption_rate and unit as they
\* were and adds one to sample_count.
C24_UnitMismatchKeepsRate ==
    (/\ float_update.called
     /\ float_update.pattern # NULL
     /\ float_update.quantity > 0
     /\ float_update.unit # float_update.pattern.unit) =>
        /\ float_pattern.consumption_rate = float_update.pattern.consumption_rate
        /\ float_pattern.unit = float_update.pattern.unit
        /\ float_pattern.sample_count = float_update.pattern.sample_count + 1


\* The learning rate the claim names for the update that makes a pattern
\* reach n samples: 0.3 up to 2, 0.5 from 3 to 9, 0.7 from 10 on.
TierRate(n) ==
    IF n <= 2 THEN FDivInt(3, 10) ELSE IF n <= 9 THEN FDivInt(5, 10) ELSE FDivInt(7, 10)

\* C25: an update of an existing pattern with n samples stores
\* r * days_lasted + (1 - r) * old_avg as personalized_days, r being the
\* learning rate of the tier of n + 1, and n + 1 as sample_count; an update
\* that finds no pattern stores days_lasted as personalized_days and 1 as
\* sample_count.
C25_EmaWithRateOfNewCount ==
    float_update.called =>
        IF float_update.pattern # NULL
        THEN /\ float_pattern.sample_count = float_update.pattern.sample_count + 1
             /\ float_pattern.personalized_days =
                   FAdd(FMul(TierRate(float_update.pattern.sample_count + 1),
                             FInt(float_update.days_lasted)),
                        FMul(FSub(FInt(1), TierRate(float_update.pattern.sample_count + 1)),
                             float_update.pattern.personalized_days))
        ELSE /\ float_pattern.sample_count = 1
             /\ float_pattern.personalized_days = FInt(float_update.days_lasted)

\* The update that moves a pattern from 9 to 10 samples has run, on an
\* observation other than the old average.
C25_Witness ==
    /\ float_update.called
    /\ float_update.pattern # NULL
    /\ float_update.pattern.sample_count = 9
    /\ float_pattern.sample_count = 10
    /\ float_pattern.learning_rate = FDivInt(7, 10)
    /\ float_update.pattern.personalized_days # FInt(float_update.days_lasted)


\* C26: when a scan evaluates an item group whose oldest item is it, the
\* step creates a confirmation for it if and only if the whole days from
\* added_at to the scan's time are at least the smaller of the predicted
\* days and 90 and no pending confirmation exists for the kitchen and it.
C26_FlaggedIffDueAndNotPending ==
    [][\A s \in Scans : \A name \in scan[s].groups :
          (/\ scan[s].pc = "groups"
           /\ scan'[s].groups = scan[s].groups \ {name})
          => LET kitchen_id == scan[s].kitchen_id
                 item_group == {i \in scan[s].items : Lower(i.name) = name}
                 predicted == GetPredictedConsumptionDays(
                                 kitchen_consumption_patterns, baseline_cache,
                                 kitchen_id, name)
             IN  \A it \in OldestItems(item_group) :
                    OldestItems(item_group) = {it}
                    => (<<kitchen_id, it.item_id>> \in scan'[s].created \ scan[s].created
                        <=> (/\ DaysBetween(it.added_at, scan[s].current_time)
                                   >= (IF predicted < 90 THEN predicted ELSE 90)
                             /\ PendingFor(<<kitchen_id, it.item_id>>) = {}))]_vars


\* C27: every depletion event stored has days_lasted >= 1, whichever
\* operation recorded it.
C27_DaysLastedAtLeastOne ==
    \A e \in DOMAIN consumption_events : consumption_events[e].days_lasted >= 1


\* The pending rows of a kitchen.
PendingOfKitchen(kitchen_id) ==
    {d \in DOMAIN pending_confirmations :
        Pending(d) /\ pending_confirmations[d].kitchen_id = kitchen_id}

\* C28: once expires_at of a pending confirmation has passed, no step of the
\* clock, of a scan or of a read route changes its status, no scan creates a
\* confirmation for its kitchen and item, and the list and the count asked
\* for its kitchen leave it out.
C28_ExpiredStaysPendingAndHidden ==
    [][\A c \in DOMAIN pending_confirmations :
          (Pending(c) /\ pending_confirmations[c].expires_at <= now')
          => /\ pending_confirmations'[c] = pending_confirmations[c]
             /\ \A d \in DOMAIN pending_confirmations' \ DOMAIN pending_confirmations :
                   <<pending_confirmations'[d].kitchen_id, pending_confirmations'[d].item_id>>
                      # LookupKey(c)
             /\ (listing' # listing
                 /\ listing'.kitchen_id = pending_confirmations[c].kitchen_id)
                => \A i \in DOMAIN listing'.confirmations : listing'.confirmations[i] # c
             /\ (counting' # counting
                 /\ counting'.kitchen_id = pending_confirmations[c].kitchen_id)
                => counting'.pending_count
                      < Cardinality(PendingOfKitchen(pending_confirmations[c].kitchen_id))]_vars

\* A confirmation has expired and is pending, its item is in the inventory,
\* a scan started after the expiry has gone through its kitchens and skipped
\* the item, and the list and the count asked after the expiry are empty.
C28_Witness ==
    \E c \in DOMAIN pending_confirmations : \E s \in Scans :
        /\ Pending(c)
        /\ pending_confirmations[c].expires_at <= now
        /\ kitchen_items[pending_confirmations[c].item_id].present
        /\ scan[s].pc = "kitchens" /\ scan[s].kitchens = {}
        /\ scan[s].current_time >= pending_confirmations[c].expires_at
        /\ LookupKey(c) \in scan[s].skipped
        /\ scan[s].summary.confirmations_created = 0
        /\ Len(pending_confirmations) = 1
        /\ listing.kitchen_id = pending_confirmations[c].kitchen_id
        /\ listing.at >= pending_confirmations[c].expires_at
        /\ listing.confirmations = <<>>
        /\ counting.kitchen_id = pending_confirmations[c].kitchen_id
        /\ counting.at >= pending_confirmations[c].expires_at
        /\ counting.pending_count = 0


\* The inventory row a confirmation names is gone.
ItemGone(c) == ~kitchen_items[pending_confirmations[c].item_id].present

\* C29: a confirmed response that finds the inventory item of its pending
\* confirmation gone is answered with 404 and changes no table (the
\* confirmation stays pending, no event, no pattern change, no shopping-list
\* row); and a pending confirmation whose item is gone leaves pending only
\* by becoming denied.
C29_ConfirmOfMissingItemChangesNothing ==
    [][/\ \A r \in Reqs :
             (/\ req[r].pc = "read"
              /\ req[r].response = "confirmed"
              /\ ItemGone(req[r].confirmation_id)
              /\ req'[r] # req[r]
              /\ n_faults' = n_faults)
             => /\ req'[r].pc = "done"
                /\ req'[r].status = 404
                /\ UNCHANGED db
       /\ \A c \in DOMAIN pending_confirmations :
             (/\ Pending(c)
              /\ ItemGone(c)
              /\ pending_confirmations'[c].status # "pending")
             => pending_confirmations'[c].status = "denied"]_vars

\* A confirmed response was answered 404 because the item had been removed
\* by hand; its confirmation is still pending.
C29_Witness ==
    \E r \in Reqs :
        /\ req[r].pc = "done"
        /\ req[r].response = "confirmed"
        /\ req[r].status = 404
        /\ req[r].message = "item not found in inventory"
        /\ Pending(req[r].confirmation_id)
        /\ ItemGone(req[r].confirmation_id)
        /\ \E e \in DOMAIN consumption_events :
              /\ consumption_events[e].method = "manual"
              /\ consumption_events[e].item_id
                    = pending_confirmations[req[r].confirmation_id].item_id


\* C30: the pattern has personalized_days >= 1 after every update, and the
\* personalized prediction made from it, int(round(personalized_days)), is
\* at least 1.
C30_PersonalizedDaysAtLeastOne ==
    float_pattern # NULL =>
        /\ FLeq(FInt(1), float_pattern.personalized_days)
        /\ FRoundInt(float_pattern.personalized_days) >= 1

\* A pattern that predicts (three samples or more) has been updated with an
\* item used up on the day it was added, and its average has come down to
\* less than 2 days without being 1.
C30_Witness ==
    /\ float_update.called
    /\ float_update.pattern # NULL
    /\ float_update.days_lasted = 1
    /\ float_pattern.sample_count >= 3
    /\ FLess(float_pattern.personalized_days, FInt(2))
    /\ FLess(FInt(1), float_pattern.personalized_days)

====
